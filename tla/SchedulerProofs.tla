-------------------------- MODULE SchedulerProofs --------------------------
(***************************************************************************)
(* Proofs about Scheduler, for every set of jobs, goals, workers, wait ids *)
(* and inputs, in three parts.                                             *)
(*                                                                         *)
(* Dependency waits and job rows: what the operators of DependencyWaits    *)
(* and JobRows return and leave alone.                                     *)
(*                                                                         *)
(* Types: type correctness, legal routes, an exact dependency_targets      *)
(* table and no lost wake-up.  None of these is inductive alone.  A claim  *)
(* is well typed because a task route has coordinates (RoutesValid);       *)
(* settling a wait is well typed because dependency_targets names existing *)
(* waits only (TargetsExact) and a goal that a wait names exists           *)
(* (KnownInv); rescheduling is well typed because the job of an open call  *)
(* stays active (CallInv).                                                 *)
(*                                                                         *)
(* Outcomes: where a job's row is, what its outcome, its goals and the     *)
(* waits on it say of each other, that outcomes are final, that nothing    *)
(* waits in a circle, that leases are exclusive and end for good, and that *)
(* the scheduler implements the promise JobGoals states.  The steps are    *)
(* first sorted into a few kinds, by what they do to the tables; every     *)
(* proof then has one case per kind.                                       *)
(***************************************************************************)
EXTENDS GoalPromise, WellFoundedInduction, TLAPS

-----------------------------------------------------------------------------
(* Dependency waits: what the functions on them return, for all rows *)

(* Tables a wait can be evaluated against.                                  *)
GoalTable == [Goal -> GoalRow \cup {Null}]
ArchiveTable == [Job -> ArchiveRow \cup {Null}]

(* Every goal that a wait's descriptor names exists.                        *)
GoalsKnown(w, gs) ==
  \A k \in DOMAIN w.descriptor :
    w.descriptor[k].target.kind = "goal" => gs[w.descriptor[k].target.id] # Null

(* A target that has not been decided: no archived job, no closed goal.     *)
Undecided(t, gs, ar) ==
  IF t.kind = "job" THEN ar[t.id] = Null
  ELSE gs[t.id] # Null /\ gs[t.id].state = "OPEN"

(* The fields of a wait row.                                                *)
LEMMA WaitRowFields ==
  ASSUME NEW w
  PROVE  w \in WaitRow <=>
           \E d \in Descriptors :
             w \in [descriptor : {d}, deadline : Time, state : WaitState,
                    deps : [DOMAIN d -> DependencyOutcome]]
  BY DEF WaitRow

(* A descriptor is a sequence of dependencies.                              *)
LEMMA DescriptorType ==
  ASSUME NEW d \in Descriptors
  PROVE  /\ d \in Seq(Dependency)
         /\ DOMAIN d \subseteq Nat
         /\ \A k \in DOMAIN d : d[k] \in Dependency
<1>1. d \in Seq(Dependency)
  BY DescriptorAssumption
<1> QED
  BY <1>1

(* What WaitRow says of one row.                                            *)
LEMMA WaitRowParts ==
  ASSUME NEW w \in WaitRow
  PROVE  /\ w.descriptor \in Descriptors
         /\ w.deadline \in Time /\ w.state \in WaitState
         /\ DOMAIN w.deps = DOMAIN w.descriptor
         /\ w.deps \in [DOMAIN w.descriptor -> DependencyOutcome]
  BY WaitRowFields

(* A row with the fields of a wait row is one.                              *)
LEMMA WaitRowIntro ==
  ASSUME NEW d \in Descriptors, NEW t \in Time, NEW st \in WaitState,
         NEW f \in [DOMAIN d -> DependencyOutcome]
  PROVE  [descriptor |-> d, deadline |-> t, state |-> st, deps |-> f] \in WaitRow
  BY WaitRowFields

(* A new state makes a wait row.                                            *)
LEMMA WaitRowState ==
  ASSUME NEW w \in WaitRow, NEW st \in WaitState
  PROVE  /\ [w EXCEPT !.state = st] \in WaitRow
         /\ [w EXCEPT !.state = st].descriptor = w.descriptor
         /\ [w EXCEPT !.state = st].deadline = w.deadline
         /\ [w EXCEPT !.state = st].state = st
         /\ [w EXCEPT !.state = st].deps = w.deps
  BY WaitRowFields

(* New dependencies make a wait row.                                        *)
LEMMA WaitRowDeps ==
  ASSUME NEW w \in WaitRow, NEW f \in [DOMAIN w.descriptor -> DependencyOutcome]
  PROVE  /\ [w EXCEPT !.deps = f] \in WaitRow
         /\ [w EXCEPT !.deps = f].descriptor = w.descriptor
         /\ [w EXCEPT !.deps = f].deadline = w.deadline
         /\ [w EXCEPT !.deps = f].state = w.state
         /\ [w EXCEPT !.deps = f].deps = f
  BY WaitRowFields

(* _close_wait keeps the type, the descriptor and the deadline, gives the   *)
(* state, and leaves no dependency pending.                                 *)
LEMMA CloseWaitType ==
  ASSUME NEW w \in WaitRow, NEW st \in WaitState
  PROVE  /\ close_wait(w, st) \in WaitRow
         /\ close_wait(w, st).descriptor = w.descriptor
         /\ close_wait(w, st).deadline = w.deadline
         /\ close_wait(w, st).state = st
<1> DEFINE v == [w EXCEPT !.state = st]
           f == [i \in DOMAIN w.deps |->
                   IF w.deps[i].state = "PENDING" THEN [state |-> "CANCELLED", by |-> Null]
                   ELSE w.deps[i]]
<1>1. f \in [DOMAIN w.descriptor -> DependencyOutcome]
  <2>1. [state |-> "CANCELLED", by |-> Null] \in DependencyOutcome
    BY DEF DependencyOutcome
  <2> QED
    BY <2>1, WaitRowParts
<1> HIDE DEF f
<1>2. close_wait(w, st) = [v EXCEPT !.deps = f]
  BY DEF close_wait, f
<1>3. /\ v \in WaitRow /\ v.descriptor = w.descriptor /\ v.deadline = w.deadline
      /\ v.state = st
  BY WaitRowState
<1> HIDE DEF v
<1> QED
  BY <1>1, <1>2, <1>3, WaitRowDeps

(* One dependency evaluated: a typed outcome, and pending only if it was    *)
(* pending before and its target is undecided.                              *)
LEMMA EvaluateDependencyType ==
  ASSUME NEW gs \in GoalTable, NEW ar \in ArchiveTable,
         NEW dep \in Dependency, NEW old \in DependencyOutcome,
         dep.target.kind = "goal" => gs[dep.target.id] # Null
  PROVE  /\ evaluate_dependency(dep, old, gs, ar) \in DependencyOutcome
         /\ evaluate_dependency(dep, old, gs, ar).state = "PENDING" =>
              Undecided(dep.target, gs, ar)
<1> DEFINE id == dep.target.id
<1>1. dep.target \in Target
  BY DEF Dependency
<1>2. CASE dep.target.kind = "goal"
  <2>1. id \in Goal /\ gs[id] \in GoalRow
    BY <1>1, <1>2 DEF Target, GoalTable
  <2>2. gs[id].state \in {"OPEN", "SUCCEEDED", "FAILED"}
        /\ gs[id].successful_job_id \in Job \cup {Null}
    BY <2>1 DEF GoalRow
  <2>3. goal_outcome(dep, old, gs) \in DependencyOutcome
    BY <2>2 DEF goal_outcome, DependencyOutcome
  <2>4. goal_outcome(dep, old, gs).state = "PENDING" => gs[id].state = "OPEN"
    BY <2>2 DEF goal_outcome
  <2> QED
    BY <1>2, <2>1, <2>3, <2>4, RowAssumption DEF evaluate_dependency, Undecided
<1>3. CASE dep.target.kind # "goal"
  <2>1. id \in Job /\ dep.target.kind = "job"
    BY <1>1, <1>3 DEF Target
  <2>2. job_outcome(dep, old, ar) \in DependencyOutcome
    BY <2>1 DEF job_outcome, DependencyOutcome
  <2>3. job_outcome(dep, old, ar).state = "PENDING" => ar[id] = Null
    BY DEF job_outcome
  <2> QED
    BY <1>3, <2>1, <2>2, <2>3 DEF evaluate_dependency, Undecided
<1> QED
  BY <1>2, <1>3

(* _evaluate_wait keeps the type, the descriptor and the deadline, decides  *)
(* nothing twice, and leaves a dependency of a pending wait pending only if *)
(* its target is undecided.                                                 *)
LEMMA EvaluateWaitType ==
  ASSUME NEW gs \in GoalTable, NEW ar \in ArchiveTable, NEW t \in Nat,
         NEW w \in WaitRow, GoalsKnown(w, gs)
  PROVE  LET v == evaluate_wait(w, t, gs, ar) IN
         /\ v \in WaitRow
         /\ v.descriptor = w.descriptor
         /\ v.deadline = w.deadline
         /\ w.state # "PENDING" => v = w
         /\ v.state = "PENDING" =>
              \A k \in DOMAIN v.deps : v.deps[k].state = "PENDING" =>
                Undecided(v.descriptor[k].target, gs, ar)
<1> DEFINE new == [i \in DOMAIN w.deps |->
                     evaluate_dependency(w.descriptor[i], w.deps[i], gs, ar)]
           failed == {i \in DOMAIN w.deps :
                        w.deps[i].state = "PENDING" /\ new[i].state = "FAILED"}
           first == CHOOSE i \in failed : \A k \in failed : i <= k
           part == [i \in DOMAIN w.deps |-> IF i <= first THEN new[i] ELSE w.deps[i]]
           st == IF \E i \in DOMAIN w.deps : new[i].state = "PENDING"
                 THEN "PENDING" ELSE "SATISFIED"
           v == evaluate_wait(w, t, gs, ar)
<1>1. /\ w.descriptor \in Descriptors
      /\ w.deadline \in Nat /\ w.state \in WaitState
      /\ DOMAIN w.deps = DOMAIN w.descriptor
      /\ w.deps \in [DOMAIN w.descriptor -> DependencyOutcome]
  BY WaitRowParts, TimeAssumption DEF Time, Infinity
<1>2. ASSUME NEW i \in DOMAIN w.deps
      PROVE  /\ new[i] \in DependencyOutcome
             /\ new[i].state = "PENDING" => Undecided(w.descriptor[i].target, gs, ar)
  <2>1. w.descriptor[i] \in Dependency /\ w.deps[i] \in DependencyOutcome
    BY <1>1, DescriptorType
  <2>2. w.descriptor[i].target.kind = "goal" => gs[w.descriptor[i].target.id] # Null
    BY <1>1 DEF GoalsKnown
  <2> QED
    BY <2>1, <2>2, EvaluateDependencyType
<1>3. new \in [DOMAIN w.descriptor -> DependencyOutcome]
  BY <1>1, <1>2
<1>4. part \in [DOMAIN w.descriptor -> DependencyOutcome]
  BY <1>1, <1>2
<1>5. st \in WaitState
  BY DEF WaitState
<1>6. \/ v = w /\ w.state # "PENDING"
      \/ w.state = "PENDING" /\ v = close_wait(w, "TIMED_OUT")
      \/ w.state = "PENDING" /\ v = close_wait([w EXCEPT !.deps = part], "FAILED")
      \/ w.state = "PENDING" /\ v = [w EXCEPT !.deps = new, !.state = st]
  <2>1. v = CASE w.state # "PENDING" -> w
              [] w.state = "PENDING" /\ w.deadline <= t -> close_wait(w, "TIMED_OUT")
              [] w.state = "PENDING" /\ w.deadline > t /\ failed # {} ->
                   close_wait([w EXCEPT !.deps = part], "FAILED")
              [] w.state = "PENDING" /\ w.deadline > t /\ failed = {} ->
                   [w EXCEPT !.deps = new, !.state = st]
    BY Zenon DEF evaluate_wait
  <2> HIDE DEF new, failed, part, st, v
  <2> QED
    BY <1>1, <2>1
<1> HIDE DEF new, part, st, v
<1>7. CASE v = w /\ w.state # "PENDING"
  BY <1>7 DEF v
<1>8. CASE w.state = "PENDING" /\ v = close_wait(w, "TIMED_OUT")
  <2>1. "TIMED_OUT" \in WaitState
    BY DEF WaitState
  <2> QED
    BY <1>8, <2>1, CloseWaitType DEF v
<1>9. CASE w.state = "PENDING" /\ v = close_wait([w EXCEPT !.deps = part], "FAILED")
  <2>1. "FAILED" \in WaitState
    BY DEF WaitState
  <2> DEFINE u == [w EXCEPT !.deps = part]
  <2>2. u \in WaitRow /\ u.descriptor = w.descriptor /\ u.deadline = w.deadline
    BY <1>4, WaitRowDeps
  <2> HIDE DEF u
  <2>3. v = close_wait(u, "FAILED")
    BY <1>9 DEF u
  <2>4. /\ v \in WaitRow /\ v.descriptor = w.descriptor /\ v.deadline = w.deadline
        /\ v.state = "FAILED"
    BY <2>1, <2>2, <2>3, CloseWaitType
  <2> QED
    BY <1>9, <2>4 DEF v
<1>10. CASE w.state = "PENDING" /\ v = [w EXCEPT !.deps = new, !.state = st]
  <2> DEFINE u == [w EXCEPT !.deps = new]
  <2>1. /\ u \in WaitRow /\ u.descriptor = w.descriptor /\ u.deadline = w.deadline
        /\ u.deps = new
    BY <1>3, WaitRowDeps
  <2>2. v = [u EXCEPT !.state = st]
    BY <1>10
  <2> HIDE DEF u
  <2>3. /\ v \in WaitRow /\ v.descriptor = w.descriptor /\ v.deadline = w.deadline
        /\ v.deps = new
    BY <1>5, <2>1, <2>2, WaitRowState
  <2>4. DOMAIN new = DOMAIN w.deps
    BY <1>1, <1>3
  <2> QED
    BY <1>2, <1>10, <2>3, <2>4 DEF v
<1> QED
  BY <1>6, <1>7, <1>8, <1>9, <1>10

(* A wait as _register_wait creates it.                                     *)
LEMMA NewWaitType ==
  ASSUME NEW d \in Descriptors, NEW t \in Time
  PROVE  /\ new_wait(d, t) \in WaitRow
         /\ new_wait(d, t).descriptor = d
         /\ new_wait(d, t).state = "PENDING"
<1> DEFINE f == [i \in DOMAIN d |-> [state |-> "PENDING", by |-> Null]]
<1>1. f \in [DOMAIN d -> DependencyOutcome]
  BY DEF DependencyOutcome
<1>2. "PENDING" \in WaitState
  BY DEF WaitState
<1> HIDE DEF f
<1>3. new_wait(d, t) = [descriptor |-> d, deadline |-> t, state |-> "PENDING", deps |-> f]
  BY DEF new_wait, f
<1> QED
  BY <1>1, <1>2, <1>3, WaitRowIntro

-----------------------------------------------------------------------------
(* Outcomes *)

(* A set of numbers has a least one: the first failed dependency exists.    *)
LEMMA LeastNumber ==
  ASSUME NEW T \in SUBSET Nat, T # {}
  PROVE  \E x \in T : \A y \in T : x <= y
<1> DEFINE R == OpToRel(<, Nat)
<1>1. IsWellFoundedOn(R, Nat)
  BY NatLessThanWellFounded
<1>2. \A x, y \in Nat : y < x => <<y, x>> \in R
  BY DEF OpToRel
<1> HIDE DEF R
<1>3. PICK x \in T : \A y \in T : ~ (<<y, x>> \in R)
  BY <1>1, WFMin
<1>4. \A y \in T : ~ (y < x)
  BY <1>2, <1>3, Zenon
<1>5. \A y \in T : x <= y
  BY <1>4
<1> QED
  BY <1>5

(* What is recorded about a dependency is what the tables say of its        *)
(* target.                                                                  *)
Justified(dep, o, gs, ar) ==
  LET id == dep.target.id IN
  /\ o.state = "SATISFIED" =>
       IF dep.target.kind = "goal"
       THEN gs[id].state = "SUCCEEDED" /\ o.by = gs[id].successful_job_id
       ELSE /\ ar[id] # Null /\ o.by = id
            /\ ar[id].status = "success" \/ dep.condition = "complete"
  /\ o.state = "FAILED" =>
       IF dep.target.kind = "goal" THEN gs[id].state = "FAILED"
       ELSE ar[id] # Null /\ ar[id].status # "success" /\ dep.condition = "success"

(* The state of a wait follows from the states of its dependencies.  The    *)
(* last conjunct is what makes this inductive: a wait is closed with the    *)
(* first failure, so a pending one has none.                                *)
StateFollows(w, t) ==
  /\ w.state = "SATISFIED" => \A k \in DOMAIN w.deps : w.deps[k].state = "SATISFIED"
  /\ w.state = "FAILED" => \E k \in DOMAIN w.deps : w.deps[k].state = "FAILED"
  /\ w.state = "TIMED_OUT" => w.deadline <= t
  /\ w.state = "PENDING" <=> \E k \in DOMAIN w.deps : w.deps[k].state = "PENDING"
  /\ w.state = "PENDING" =>
       \A k \in DOMAIN w.deps : w.deps[k].state \in {"PENDING", "SATISFIED"}

DepsJustified(w, gs, ar) ==
  \A k \in DOMAIN w.deps : Justified(w.descriptor[k], w.deps[k], gs, ar)

(* The dependencies that _close_wait leaves.                                *)
LEMMA CloseWaitDeps ==
  ASSUME NEW w \in WaitRow, NEW st \in WaitState
  PROVE  /\ DOMAIN close_wait(w, st).deps = DOMAIN w.deps
         /\ \A i \in DOMAIN w.deps :
              close_wait(w, st).deps[i] = IF w.deps[i].state = "PENDING"
                                          THEN [state |-> "CANCELLED", by |-> Null]
                                          ELSE w.deps[i]
<1> DEFINE v == [w EXCEPT !.state = st]
           f == [i \in DOMAIN w.deps |->
                   IF w.deps[i].state = "PENDING" THEN [state |-> "CANCELLED", by |-> Null]
                   ELSE w.deps[i]]
<1>1. f \in [DOMAIN w.descriptor -> DependencyOutcome]
  <2>1. [state |-> "CANCELLED", by |-> Null] \in DependencyOutcome
    BY DEF DependencyOutcome
  <2> QED
    BY <2>1, WaitRowParts
<1> HIDE DEF f
<1>2. close_wait(w, st) = [v EXCEPT !.deps = f]
  BY DEF close_wait, f
<1>3. v \in WaitRow /\ v.descriptor = w.descriptor
  BY WaitRowState
<1> HIDE DEF v
<1>4. close_wait(w, st).deps = f
  BY <1>1, <1>2, <1>3, WaitRowDeps
<1> QED
  BY <1>4 DEF f

(* Closing a wait keeps what is justified, and gives it a state that        *)
(* follows from its dependencies.                                           *)
LEMMA CloseWaitJustified ==
  ASSUME NEW w \in WaitRow, NEW st \in {"FAILED", "TIMED_OUT", "CANCELLED"}, NEW t,
         NEW gs, NEW ar, DepsJustified(w, gs, ar),
         st = "TIMED_OUT" => w.deadline <= t,
         st = "FAILED" => \E k \in DOMAIN w.deps : w.deps[k].state = "FAILED"
  PROVE  /\ DepsJustified(close_wait(w, st), gs, ar)
         /\ StateFollows(close_wait(w, st), t)
<1> DEFINE v == close_wait(w, st)
<1>1. st \in WaitState
  BY DEF WaitState
<1>2. /\ v.descriptor = w.descriptor /\ v.deadline = w.deadline /\ v.state = st
      /\ DOMAIN v.deps = DOMAIN w.deps
      /\ \A i \in DOMAIN w.deps :
           v.deps[i] = IF w.deps[i].state = "PENDING"
                       THEN [state |-> "CANCELLED", by |-> Null] ELSE w.deps[i]
  BY <1>1, CloseWaitType, CloseWaitDeps
<1> HIDE DEF v
<1>3. DepsJustified(v, gs, ar)
  BY <1>2 DEF DepsJustified, Justified
<1>4. StateFollows(v, t)
  BY <1>2 DEF StateFollows
<1> QED
  BY <1>3, <1>4 DEF v

(* One dependency evaluated is justified by the tables, and never becomes   *)
(* pending or cancelled.                                                    *)
LEMMA EvaluateDependencyJustified ==
  ASSUME NEW gs \in GoalTable, NEW ar \in ArchiveTable,
         NEW dep \in Dependency, NEW old \in DependencyOutcome,
         dep.target.kind = "goal" => gs[dep.target.id] # Null,
         Justified(dep, old, gs, ar)
  PROVE  LET o == evaluate_dependency(dep, old, gs, ar) IN
         /\ Justified(dep, o, gs, ar)
         /\ o.state = "PENDING" => old.state = "PENDING"
         /\ o.state = "CANCELLED" => old.state = "CANCELLED"
         /\ old.state # "PENDING" => o = old
<1> DEFINE id == dep.target.id
           o == evaluate_dependency(dep, old, gs, ar)
<1>1. CASE old.state # "PENDING"
  BY <1>1 DEF evaluate_dependency
<1>2. CASE old.state = "PENDING" /\ dep.target.kind = "goal"
  <2>1. o = goal_outcome(dep, old, gs)
    BY <1>2 DEF evaluate_dependency
  <2>2. id \in Goal /\ gs[id] \in GoalRow
    BY <1>2 DEF Dependency, Target, GoalTable
  <2>3. gs[id].state \in {"OPEN", "SUCCEEDED", "FAILED"}
    BY <2>2 DEF GoalRow
  <2> QED
    BY <1>2, <2>1, <2>3 DEF goal_outcome, Justified
<1>3. CASE old.state = "PENDING" /\ dep.target.kind # "goal"
  <2>1. o = job_outcome(dep, old, ar)
    BY <1>3 DEF evaluate_dependency
  <2>2. dep.condition \in {"success", "complete"}
    BY DEF Dependency
  <2> QED
    BY <1>3, <2>1, <2>2 DEF job_outcome, Justified
<1> QED
  BY <1>1, <1>2, <1>3

(* _evaluate_wait: if the wait was justified by the tables it is evaluated  *)
(* against, so is the result; its state follows from its dependencies; and  *)
(* nothing becomes pending again.                                           *)
LEMMA EvaluateWaitJustified ==
  ASSUME NEW gs \in GoalTable, NEW ar \in ArchiveTable, NEW t \in Nat,
         NEW w \in WaitRow, GoalsKnown(w, gs),
         DepsJustified(w, gs, ar), StateFollows(w, t)
  PROVE  LET v == evaluate_wait(w, t, gs, ar) IN
         /\ DepsJustified(v, gs, ar)
         /\ StateFollows(v, t)
         /\ v.state = "PENDING" => w.state = "PENDING"
         /\ v.state = "PENDING" =>
              \A k \in DOMAIN v.deps :
                v.deps[k].state = "PENDING" =>
                  k \in DOMAIN w.deps /\ w.deps[k].state = "PENDING"
<1> DEFINE new == [i \in DOMAIN w.deps |->
                     evaluate_dependency(w.descriptor[i], w.deps[i], gs, ar)]
           failed == {i \in DOMAIN w.deps :
                        w.deps[i].state = "PENDING" /\ new[i].state = "FAILED"}
           first == CHOOSE i \in failed : \A k \in failed : i <= k
           part == [i \in DOMAIN w.deps |-> IF i <= first THEN new[i] ELSE w.deps[i]]
           st == IF \E i \in DOMAIN w.deps : new[i].state = "PENDING"
                 THEN "PENDING" ELSE "SATISFIED"
           v == evaluate_wait(w, t, gs, ar)
<1>1. /\ w.descriptor \in Descriptors
      /\ w.deadline \in Nat /\ w.state \in WaitState
      /\ DOMAIN w.deps = DOMAIN w.descriptor
      /\ w.deps \in [DOMAIN w.descriptor -> DependencyOutcome]
  BY WaitRowParts, TimeAssumption DEF Time, Infinity
<1>2. ASSUME NEW i \in DOMAIN w.deps
      PROVE  /\ new[i] \in DependencyOutcome
             /\ Justified(w.descriptor[i], new[i], gs, ar)
             /\ new[i].state = "PENDING" => w.deps[i].state = "PENDING"
             /\ new[i].state = "CANCELLED" => w.deps[i].state = "CANCELLED"
             /\ w.deps[i].state # "PENDING" => new[i] = w.deps[i]
  <2>1. w.descriptor[i] \in Dependency /\ w.deps[i] \in DependencyOutcome
    BY <1>1, DescriptorType
  <2>2. w.descriptor[i].target.kind = "goal" => gs[w.descriptor[i].target.id] # Null
    BY <1>1 DEF GoalsKnown
  <2>3. Justified(w.descriptor[i], w.deps[i], gs, ar)
    BY DEF DepsJustified
  <2> QED
    BY <2>1, <2>2, <2>3, EvaluateDependencyType, EvaluateDependencyJustified
<1>3. new \in [DOMAIN w.descriptor -> DependencyOutcome]
  BY <1>1, <1>2
<1>4. /\ part \in [DOMAIN w.descriptor -> DependencyOutcome]
      /\ \A i \in DOMAIN w.deps : Justified(w.descriptor[i], part[i], gs, ar)
  BY <1>1, <1>2 DEF DepsJustified
<1>5. failed # {} => first \in failed /\ part[first].state = "FAILED"
  <2>1. failed \in SUBSET Nat
    BY <1>1, DescriptorType
  <2> SUFFICES ASSUME failed # {} PROVE first \in failed /\ part[first].state = "FAILED"
    OBVIOUS
  <2>2. \E i \in failed : \A k \in failed : i <= k
    <3> HIDE DEF failed
    <3> QED
      BY <2>1, LeastNumber
  <2>3. first \in failed
    <3> HIDE DEF failed
    <3> QED
      BY <2>2
  <2>4. first \in DOMAIN w.deps /\ new[first].state = "FAILED" /\ first \in Nat
    BY <2>1, <2>3
  <2> HIDE DEF first, new
  <2>5. part[first] = new[first]
    BY <2>4
  <2> QED
    BY <2>3, <2>4, <2>5
<1>6. \/ v = w /\ w.state # "PENDING"
      \/ w.state = "PENDING" /\ w.deadline <= t /\ v = close_wait(w, "TIMED_OUT")
      \/ w.state = "PENDING" /\ failed # {} /\ v = close_wait([w EXCEPT !.deps = part], "FAILED")
      \/ w.state = "PENDING" /\ failed = {} /\ v = [w EXCEPT !.deps = new, !.state = st]
  <2>1. v = CASE w.state # "PENDING" -> w
              [] w.state = "PENDING" /\ w.deadline <= t -> close_wait(w, "TIMED_OUT")
              [] w.state = "PENDING" /\ w.deadline > t /\ failed # {} ->
                   close_wait([w EXCEPT !.deps = part], "FAILED")
              [] w.state = "PENDING" /\ w.deadline > t /\ failed = {} ->
                   [w EXCEPT !.deps = new, !.state = st]
    BY Zenon DEF evaluate_wait
  <2> HIDE DEF new, failed, part, st, v
  <2> QED
    BY <1>1, <2>1
<1>7. failed = {} => \A i \in DOMAIN w.deps : w.deps[i].state = "PENDING" => new[i].state # "FAILED"
  OBVIOUS
<1>8. DOMAIN part = DOMAIN w.deps /\ DOMAIN new = DOMAIN w.deps
  OBVIOUS
<1>9. st = "PENDING" <=> \E i \in DOMAIN w.deps : new[i].state = "PENDING"
  OBVIOUS
<1>10. st \in {"PENDING", "SATISFIED"} /\ st \in WaitState
  BY DEF WaitState
<1> HIDE DEF new, part, st, v, failed, first
<1>11. CASE v = w /\ w.state # "PENDING"
  BY <1>11 DEF v
<1>12. CASE w.state = "PENDING" /\ w.deadline <= t /\ v = close_wait(w, "TIMED_OUT")
  <2>1. DepsJustified(v, gs, ar) /\ StateFollows(v, t)
    BY <1>12, CloseWaitJustified
  <2>2. v.state = "TIMED_OUT"
    BY <1>12, CloseWaitType DEF WaitState
  <2> QED
    BY <2>1, <2>2 DEF v
<1>13. CASE w.state = "PENDING" /\ failed # {} /\ v = close_wait([w EXCEPT !.deps = part], "FAILED")
  <2> DEFINE u == [w EXCEPT !.deps = part]
  <2>1. u \in WaitRow /\ u.descriptor = w.descriptor /\ u.deps = part
    BY <1>4, WaitRowDeps
  <2> HIDE DEF u
  <2>2. v = close_wait(u, "FAILED")
    BY <1>13 DEF u
  <2>3. DepsJustified(u, gs, ar)
    BY <1>4, <1>8, <2>1 DEF DepsJustified
  <2>4. \E k \in DOMAIN u.deps : u.deps[k].state = "FAILED"
    BY <1>5, <1>8, <1>13, <2>1 DEF failed
  <2>5. DepsJustified(v, gs, ar) /\ StateFollows(v, t)
    BY <2>1, <2>2, <2>3, <2>4, CloseWaitJustified
  <2>6. v.state = "FAILED"
    BY <2>1, <2>2, CloseWaitType DEF WaitState
  <2> QED
    BY <2>5, <2>6 DEF v
<1>14. CASE w.state = "PENDING" /\ failed = {} /\ v = [w EXCEPT !.deps = new, !.state = st]
  <2> DEFINE u == [w EXCEPT !.deps = new]
  <2>1. u \in WaitRow /\ u.descriptor = w.descriptor /\ u.deps = new
    BY <1>3, WaitRowDeps
  <2>2. v = [u EXCEPT !.state = st]
    BY <1>14
  <2> HIDE DEF u
  <2>3. v.descriptor = w.descriptor /\ v.deps = new /\ v.state = st
    BY <1>10, <2>1, <2>2, WaitRowState
  <2>4. \A k \in DOMAIN w.deps : new[k].state \in {"PENDING", "SATISFIED"}
    <3> SUFFICES ASSUME NEW k \in DOMAIN w.deps PROVE new[k].state \in {"PENDING", "SATISFIED"}
      OBVIOUS
    <3>1. w.deps[k].state \in {"PENDING", "SATISFIED"}
      BY <1>14 DEF StateFollows
    <3>2. new[k].state \in {"PENDING", "SATISFIED", "FAILED", "CANCELLED"}
      BY <1>2 DEF DependencyOutcome
    <3> QED
      BY <1>2, <1>7, <1>14, <3>1, <3>2
  <2>5. DepsJustified(v, gs, ar)
    BY <1>2, <1>8, <2>3 DEF DepsJustified
  <2>6. StateFollows(v, t)
    BY <1>8, <1>9, <1>10, <2>3, <2>4 DEF StateFollows
  <2> QED
    BY <1>2, <1>8, <1>14, <2>3, <2>5, <2>6 DEF v
<1> QED
  BY <1>6, <1>11, <1>12, <1>13, <1>14

(* A new wait is justified.                                                 *)
LEMMA NewWaitJustified ==
  ASSUME NEW d \in Descriptors, NEW t \in Time, NEW n, NEW gs, NEW ar
  PROVE  DepsJustified(new_wait(d, t), gs, ar) /\ StateFollows(new_wait(d, t), n)
<1> DEFINE f == [i \in DOMAIN d |-> [state |-> "PENDING", by |-> Null]]
           w == new_wait(d, t)
<1>1. w = [descriptor |-> d, deadline |-> t, state |-> "PENDING", deps |-> f]
  BY DEF new_wait
<1>2. w.state = "PENDING" /\ w.deps = f
  BY <1>1
<1>3. \A k \in DOMAIN f : f[k].state = "PENDING"
  OBVIOUS
<1>4. 1 \in DOMAIN f
  BY DescriptorAssumption
<1> HIDE DEF w, f
<1> QED
  BY <1>2, <1>3, <1>4 DEF DepsJustified, Justified, StateFollows, w

-----------------------------------------------------------------------------
(* Job rows: the updates keep them well typed and their routes legal *)

(* The route constraints on one row, and that a leased row shows the route  *)
(* that was leased.                                                         *)
RowRoutes(row) ==
  /\ native_route_valid(row.route)
  /\ lease_route_valid(row)
  /\ row.lease_id # 0 => row.lease_route = route_key(row.route)
  /\ row.alternate # Null /\ row.alternate.task_type # Null => row.route.work_kind = "TASK"

(* What JobRow says of the fields.                                          *)
LEMMA JobRowParts ==
  ASSUME NEW row \in JobRow
  PROVE  /\ row.route \in Route /\ row.alternate \in Alternate \cup {Null}
         /\ row.lease_id \in Nat /\ row.consecutive_expirations \in Nat
         /\ row.lease_route \in RouteKey \cup {Null}
         /\ row.lease_worker_id \in Worker \cup {Null}
         /\ row.lease_expires_at \in Nat /\ row.available_at \in Nat
         /\ row.wait_for \in SUBSET Job /\ row.wait_until_is_deadline \in BOOLEAN
         /\ row.expires_at \in Time /\ row.dependency_wait_id \in WaitId \cup {Null}
  BY DEF JobRow

(* What Route says of the fields.                                           *)
LEMMA RouteParts ==
  ASSUME NEW r \in Route
  PROVE  /\ r.job_type \in JobType /\ r.work_kind \in {"JOB", "TASK"}
         /\ r.task_type \in TaskType \cup {Null} /\ r.coordinates \in Coordinates \cup {Null}
         /\ route_key(r) \in RouteKey
  BY DEF Route, RouteKey, route_key

(* The effective route is a route key, and a legal one if the row's routes  *)
(* are.                                                                     *)
LEMMA EffectiveRouteType ==
  ASSUME NEW row \in JobRow, NEW t \in Nat
  PROVE  /\ effective_native_route(row, t) \in RouteKey
         /\ RowRoutes(row) =>
              LET key == effective_native_route(row, t) IN
              /\ key.work_kind = "TASK" => key.task_type # Null /\ row.route.coordinates # Null
              /\ key.work_kind = "JOB" => key.task_type = Null
<1>1. row.route \in Route /\ row.alternate \in Alternate \cup {Null}
  BY JobRowParts
<1>2. CASE alternate_due(row, t)
  <2>1. /\ row.alternate # Null
        /\ row.alternate.job_type \in JobType
        /\ row.alternate.task_type \in TaskType \cup {Null}
    BY <1>1, <1>2 DEF alternate_due, Alternate
  <2>2. effective_native_route(row, t) =
          [job_type |-> row.alternate.job_type,
           work_kind |-> IF row.alternate.task_type = Null THEN "JOB" ELSE "TASK",
           task_type |-> row.alternate.task_type]
    BY <1>2 DEF effective_native_route
  <2>3. effective_native_route(row, t) \in RouteKey
    BY <2>1, <2>2 DEF RouteKey
  <2>4. RowRoutes(row) /\ row.alternate.task_type # Null => row.route.coordinates # Null
    BY <1>1, <2>1, RouteParts DEF RowRoutes, native_route_valid
  <2> QED
    BY <2>2, <2>3, <2>4
<1>3. CASE ~alternate_due(row, t)
  <2>1. effective_native_route(row, t) = route_key(row.route)
    BY <1>3 DEF effective_native_route
  <2> QED
    BY <1>1, <2>1, RouteParts DEF RowRoutes, native_route_valid, route_key
<1> QED
  BY <1>2, <1>3

(* The row a poll leaves is well typed and its routes are legal.            *)
LEMMA PollLeaseType ==
  ASSUME NEW row \in JobRow, NEW t \in Nat, NEW lease \in Nat \ {0}, NEW w \in Worker,
         NEW n \in Nat
  PROVE  /\ poll_lease(row, t, lease, w, n) \in JobRow
         /\ RowRoutes(row) => RowRoutes(poll_lease(row, t, lease, w, n))
<1> DEFINE key == effective_native_route(row, t)
           alt == IF alternate_due(row, t) THEN Null ELSE row.alternate
           r == promoted_route(row, key)
           e == expirations_after_lease(row)
           new == poll_lease(row, t, lease, w, n)
<1>1. key \in RouteKey
  BY EffectiveRouteType
<1>2. /\ key.job_type \in JobType /\ key.work_kind \in {"JOB", "TASK"}
      /\ key.task_type \in TaskType \cup {Null}
  BY <1>1 DEF RouteKey
<1>3. RowRoutes(row) =>
        /\ key.work_kind = "TASK" => key.task_type # Null /\ row.route.coordinates # Null
        /\ key.work_kind = "JOB" => key.task_type = Null
  BY EffectiveRouteType
<1> HIDE DEF key
<1>4. row.route.coordinates \in Coordinates \cup {Null} /\ row.alternate \in Alternate \cup {Null}
  BY JobRowParts, RouteParts
<1>5. /\ r \in Route /\ route_key(r) = key
      /\ RowRoutes(row) => native_route_valid(r)
      /\ r.work_kind = key.work_kind
  BY <1>1, <1>2, <1>3, <1>4 DEF promoted_route, Route, route_key, native_route_valid, RouteKey
<1>6. alt \in Alternate \cup {Null}
  BY <1>4
<1>7. e \in Nat
  BY JobRowParts DEF expirations_after_lease
<1>8. t + n \in Nat
  OBVIOUS
<1>9. lease \in Nat /\ w \in Worker \cup {Null} /\ key \in RouteKey \cup {Null}
  BY <1>1
<1>10. new = [row EXCEPT !.lease_id = lease, !.lease_worker_id = w, !.lease_route = key,
                !.lease_expires_at = t + n, !.consecutive_expirations = e,
                !.route = r, !.alternate = alt]
  BY Zenon DEF poll_lease, key
<1>11. RowRoutes(row) /\ alt # Null /\ alt.task_type # Null => key.work_kind = "TASK"
  <2>1. ASSUME alt # Null PROVE key = route_key(row.route) /\ alt = row.alternate
    BY <2>1 DEF key, effective_native_route
  <2> QED
    BY <2>1 DEF RowRoutes, route_key
<1> HIDE DEF r, alt, e, new
<1>12. new \in JobRow
  BY <1>5, <1>6, <1>7, <1>8, <1>9, <1>10, Zenon DEF JobRow
<1>13. /\ new.lease_id = lease /\ new.lease_route = key /\ new.route = r /\ new.alternate = alt
  BY <1>10 DEF JobRow
<1>14. RowRoutes(row) => RowRoutes(new)
  <2> SUFFICES ASSUME RowRoutes(row) PROVE RowRoutes(new)
    OBVIOUS
  <2>1. native_route_valid(new.route)
    BY <1>5, <1>13
  <2>2. lease_route_valid(new)
    BY <1>3, <1>13 DEF lease_route_valid
  <2> QED
    BY <1>5, <1>11, <1>13, <2>1, <2>2 DEF RowRoutes
<1> QED
  BY <1>12, <1>14 DEF new

(* The row a task claim leaves is well typed and its routes are legal.      *)
LEMMA ClaimLeaseType ==
  ASSUME NEW row \in JobRow, NEW t \in Nat, NEW lease \in Nat \ {0}, NEW w \in Worker,
         NEW n \in Nat, row.route.coordinates # Null
  PROVE  /\ claim_lease(row, t, lease, w, n) \in JobRow
         /\ RowRoutes(claim_lease(row, t, lease, w, n))
<1> DEFINE r == [job_type |-> row.route.coordinates.resume_job_type,
                 work_kind |-> "JOB", task_type |-> Null, coordinates |-> Null]
           key == route_key(r)
           e == expirations_after_lease(row)
           new == claim_lease(row, t, lease, w, n)
<1>1. row.route.coordinates.resume_job_type \in JobType
  <2>1. row.route.coordinates \in Coordinates
    BY JobRowParts, RouteParts
  <2> QED
    BY <2>1 DEF Coordinates
<1>2. r \in Route /\ native_route_valid(r) /\ key \in RouteKey /\ key.work_kind = "JOB"
  BY <1>1 DEF Route, native_route_valid, route_key, RouteKey
<1>3. e \in Nat
  BY JobRowParts DEF expirations_after_lease
<1>4. t + n \in Nat
  OBVIOUS
<1>5. /\ lease \in Nat /\ w \in Worker \cup {Null} /\ key \in RouteKey \cup {Null}
      /\ Null \in Alternate \cup {Null}
  BY <1>2
<1>6. new = [row EXCEPT !.lease_id = lease, !.lease_worker_id = w, !.lease_route = key,
                !.lease_expires_at = t + n, !.consecutive_expirations = e,
                !.route = r, !.alternate = Null]
  BY Zenon DEF claim_lease
<1> HIDE DEF r, key, e, new
<1>7. new \in JobRow
  BY <1>2, <1>3, <1>4, <1>5, <1>6, Zenon DEF JobRow
<1>8. new.lease_id = lease /\ new.lease_route = key /\ new.route = r /\ new.alternate = Null
  BY <1>6 DEF JobRow
<1>9. RowRoutes(new)
  BY <1>2, <1>8 DEF RowRoutes, lease_route_valid, key
<1> QED
  BY <1>7, <1>9 DEF new

(* A renewed lease.                                                         *)
LEMMA RenewedRowType ==
  ASSUME NEW row \in JobRow, NEW t \in Nat
  PROVE  /\ [row EXCEPT !.lease_expires_at = t] \in JobRow
         /\ RowRoutes(row) => RowRoutes([row EXCEPT !.lease_expires_at = t])
<1>1. [row EXCEPT !.lease_expires_at = t] \in JobRow
  BY Zenon DEF JobRow
<1> DEFINE new == [row EXCEPT !.lease_expires_at = t]
<1>2. /\ new.lease_id = row.lease_id /\ new.lease_route = row.lease_route
      /\ new.route = row.route /\ new.alternate = row.alternate
  BY DEF JobRow
<1> HIDE DEF new
<1> QED
  BY <1>1, <1>2 DEF RowRoutes, lease_route_valid, new

(* A row whose expirations are counted anew.                                *)
LEMMA ClearedRowType ==
  ASSUME NEW row \in JobRow
  PROVE  /\ [row EXCEPT !.consecutive_expirations = 0] \in JobRow
         /\ RowRoutes(row) => RowRoutes([row EXCEPT !.consecutive_expirations = 0])
<1>1. 0 \in Nat
  OBVIOUS
<1>2. [row EXCEPT !.consecutive_expirations = 0] \in JobRow
  BY <1>1, Zenon DEF JobRow
<1> DEFINE new == [row EXCEPT !.consecutive_expirations = 0]
<1>3. /\ new.lease_id = row.lease_id /\ new.lease_route = row.lease_route
      /\ new.route = row.route /\ new.alternate = row.alternate
  BY DEF JobRow
<1> HIDE DEF new
<1> QED
  BY <1>2, <1>3 DEF RowRoutes, lease_route_valid, new

(* A row that forgets a completed job.                                      *)
LEMMA ForgetCompletedType ==
  ASSUME NEW row \in JobRow, NEW done, NEW t \in Nat
  PROVE  /\ forget_completed(row, done, t) \in JobRow
         /\ RowRoutes(row) => RowRoutes(forget_completed(row, done, t))
<1> DEFINE rest == row.wait_for \ {done}
           at == IF row.wait_until_is_deadline /\ rest = {} THEN t ELSE row.available_at
           flag == row.wait_until_is_deadline /\ rest # {}
           new == [row EXCEPT !.wait_for = rest, !.available_at = at,
                              !.wait_until_is_deadline = flag]
<1>1. rest \in SUBSET Job /\ at \in Nat /\ flag \in BOOLEAN
  BY JobRowParts
<1>2. forget_completed(row, done, t) \in {row, new}
  BY DEF forget_completed
<1> HIDE DEF rest, at, flag
<1>3. new \in JobRow
  BY <1>1, Zenon DEF JobRow
<1>4. /\ new.lease_id = row.lease_id /\ new.lease_route = row.lease_route
      /\ new.route = row.route /\ new.alternate = row.alternate
  BY DEF JobRow
<1> HIDE DEF new
<1>5. RowRoutes(row) => RowRoutes(new)
  BY <1>4 DEF RowRoutes, lease_route_valid
<1> QED
  BY <1>2, <1>3, <1>5

(* The row of a new job.                                                    *)
LEMMA SubmittedRowType ==
  ASSUME NEW req, NEW waiting \in SUBSET Job, NEW t \in Nat,
         req.available_at \in Time \cup {Null}, req.expires_at \in Time,
         req.job_type \in JobType, "submission" \in WaitId
  PROVE  /\ submitted_row(req, waiting, t) \in JobRow
         /\ RowRoutes(submitted_row(req, waiting, t))
<1> DEFINE id == IF req.deps = <<>> THEN Null ELSE "submission"
           at == IF req.available_at = Null THEN t ELSE req.available_at
           r == [job_type |-> req.job_type, work_kind |-> "JOB",
                 task_type |-> Null, coordinates |-> Null]
<1>1. id \in WaitId \cup {Null}
  OBVIOUS
<1>2. at \in Nat
  BY TimeAssumption DEF Time, Infinity
<1>3. r \in Route /\ native_route_valid(r)
  BY DEF Route, native_route_valid
<1>4. submitted_row(req, waiting, t) =
        [dependency_wait_id |-> id, wait_for |-> waiting, available_at |-> at,
         wait_until_is_deadline |-> FALSE, expires_at |-> req.expires_at,
         lease_id |-> 0, lease_worker_id |-> Null, lease_route |-> Null,
         lease_expires_at |-> 0, consecutive_expirations |-> 0,
         route |-> r, alternate |-> Null]
  BY Zenon DEF submitted_row
<1> HIDE DEF id, at, r
<1>5. /\ 0 \in Nat /\ FALSE \in BOOLEAN
      /\ Null \in Worker \cup {Null} /\ Null \in RouteKey \cup {Null}
      /\ Null \in Alternate \cup {Null}
  OBVIOUS
<1>6. submitted_row(req, waiting, t) \in JobRow
  BY <1>1, <1>2, <1>3, <1>4, <1>5 DEF JobRow
<1>7. LET new == submitted_row(req, waiting, t) IN
      new.lease_id = 0 /\ new.lease_route = Null /\ new.route = r /\ new.alternate = Null
  BY <1>4
<1> QED
  BY <1>3, <1>6, <1>7 DEF RowRoutes, lease_route_valid

(* The row of a rescheduled job.                                            *)
LEMMA RescheduledRowType ==
  ASSUME NEW row \in JobRow, NEW req, NEW waiting \in SUBSET Job, NEW t \in Nat,
         req.wait = Null \/ req.wait.id \in WaitId,
         req.available_at \in Time \cup {Null}, req.is_deadline \in BOOLEAN,
         req.route \in Route,
         req.alternate # Null =>
           /\ req.alternate.job_type \in JobType
           /\ req.alternate.task_type \in TaskType \cup {Null}
           /\ req.alternate.after_seconds \in Nat
  PROVE  /\ rescheduled_row(row, req, waiting, t) \in JobRow
         /\ /\ native_route_valid(req.route)
            /\ req.alternate # Null /\ req.alternate.task_type # Null =>
                 req.route.work_kind = "TASK"
            => RowRoutes(rescheduled_row(row, req, waiting, t))
<1> DEFINE id == IF req.wait = Null THEN Null ELSE req.wait.id
           at == rescheduled_available_at(req, waiting, t)
           flag == req.is_deadline /\ waiting # {}
           alt == IF req.alternate = Null THEN Null
                  ELSE [job_type |-> req.alternate.job_type,
                        task_type |-> req.alternate.task_type,
                        at |-> t + req.alternate.after_seconds]
           new == rescheduled_row(row, req, waiting, t)
<1>1. id \in WaitId \cup {Null}
  OBVIOUS
<1>2. at \in Nat
  BY TimeAssumption DEF Time, Infinity, rescheduled_available_at
<1>3. flag \in BOOLEAN
  OBVIOUS
<1>4. /\ alt \in Alternate \cup {Null}
      /\ alt # Null => req.alternate # Null /\ alt.task_type = req.alternate.task_type
  BY DEF Alternate
<1>5. new = [row EXCEPT !.dependency_wait_id = id, !.wait_for = waiting, !.available_at = at,
               !.wait_until_is_deadline = flag, !.lease_id = 0, !.lease_worker_id = Null,
               !.lease_route = Null, !.lease_expires_at = 0, !.consecutive_expirations = 0,
               !.route = req.route, !.alternate = alt]
  BY Zenon DEF rescheduled_row
<1> HIDE DEF id, at, flag, alt, new
<1>6. 0 \in Nat /\ Null \in Worker \cup {Null} /\ Null \in RouteKey \cup {Null}
  OBVIOUS
<1>7. new \in JobRow
  BY <1>1, <1>2, <1>3, <1>4, <1>5, <1>6, Zenon DEF JobRow
<1>8. new.lease_id = 0 /\ new.lease_route = Null /\ new.route = req.route /\ new.alternate = alt
  BY <1>5 DEF JobRow
<1> QED
  BY <1>4, <1>7, <1>8 DEF RowRoutes, lease_route_valid, new

-----------------------------------------------------------------------------
(* What the row updates leave alone *)

(* What the row says about waiting is the same.                             *)
KeepsWaiting(new, row) ==
  /\ new.dependency_wait_id = row.dependency_wait_id
  /\ new.wait_for = row.wait_for
  /\ new.wait_until_is_deadline = row.wait_until_is_deadline

(* The row is leased to the same worker under the same id.                  *)
KeepsHolder(new, row) ==
  new.lease_id = row.lease_id /\ new.lease_worker_id = row.lease_worker_id

(* A poll gives its own lease and leaves the waiting alone.                 *)
LEMMA PollLeaseFields ==
  ASSUME NEW row \in JobRow, NEW t, NEW lease, NEW w, NEW n
  PROVE  LET new == poll_lease(row, t, lease, w, n) IN
         /\ KeepsWaiting(new, row)
         /\ new.lease_id = lease /\ new.lease_worker_id = w /\ new.lease_expires_at = t + n
  BY DEF poll_lease, KeepsWaiting, JobRow

(* So does the claim of a task.                                             *)
LEMMA ClaimLeaseFields ==
  ASSUME NEW row \in JobRow, NEW t, NEW lease, NEW w, NEW n
  PROVE  LET new == claim_lease(row, t, lease, w, n) IN
         /\ KeepsWaiting(new, row)
         /\ new.lease_id = lease /\ new.lease_worker_id = w /\ new.lease_expires_at = t + n
  BY DEF claim_lease, KeepsWaiting, JobRow

(* Renewing moves the expiry of the lease only.                             *)
LEMMA RenewedRowFields ==
  ASSUME NEW row \in JobRow, NEW t
  PROVE  LET new == [row EXCEPT !.lease_expires_at = t] IN
         KeepsWaiting(new, row) /\ KeepsHolder(new, row) /\ new.lease_expires_at = t
  BY DEF KeepsWaiting, KeepsHolder, JobRow

(* Clearing the crash concern leaves waiting and lease alone.               *)
LEMMA ClearedRowFields ==
  ASSUME NEW row \in JobRow
  PROVE  LET new == [row EXCEPT !.consecutive_expirations = 0] IN
         /\ KeepsWaiting(new, row) /\ KeepsHolder(new, row)
         /\ new.lease_expires_at = row.lease_expires_at
  BY DEF KeepsWaiting, KeepsHolder, JobRow

(* The row of a job that is told of a completion: the completed job is gone *)
(* from wait_for, the deadline flag goes with the last one, and the lease   *)
(* is untouched.                                                            *)
LEMMA ForgetCompletedFields ==
  ASSUME NEW row \in JobRow, NEW done, NEW t
  PROVE  LET new == forget_completed(row, done, t) IN
         /\ new.dependency_wait_id = row.dependency_wait_id
         /\ new.wait_for = row.wait_for \ {done}
         /\ new.wait_until_is_deadline =>
              row.wait_until_is_deadline /\ (row.wait_for # {} => new.wait_for # {})
         /\ KeepsHolder(new, row) /\ new.lease_expires_at = row.lease_expires_at
<1> DEFINE new == forget_completed(row, done, t)
<1>1. CASE done \notin row.wait_for
  <2>1. new = row /\ row.wait_for \ {done} = row.wait_for
    BY <1>1 DEF forget_completed
  <2> QED
    BY <2>1 DEF KeepsHolder
<1>2. CASE done \in row.wait_for
  <2> DEFINE rest == row.wait_for \ {done}
             at == IF row.wait_until_is_deadline /\ rest = {} THEN t ELSE row.available_at
             flag == row.wait_until_is_deadline /\ rest # {}
  <2>1. new = [row EXCEPT !.wait_for = rest, !.available_at = at,
                          !.wait_until_is_deadline = flag]
    BY <1>2 DEF forget_completed
  <2> HIDE DEF rest, at, flag, new
  <2>2. /\ new.dependency_wait_id = row.dependency_wait_id
        /\ new.wait_for = rest /\ new.wait_until_is_deadline = flag
        /\ new.lease_id = row.lease_id /\ new.lease_worker_id = row.lease_worker_id
        /\ new.lease_expires_at = row.lease_expires_at
    BY <2>1 DEF JobRow
  <2> QED
    BY <2>2 DEF KeepsHolder, rest, flag, new
<1> QED
  BY <1>1, <1>2

(* A rescheduled job is unleased and waits for what it was told to wait for.*)
LEMMA RescheduledRowFields ==
  ASSUME NEW row \in JobRow, NEW req, NEW waiting, NEW t
  PROVE  LET new == rescheduled_row(row, req, waiting, t) IN
         /\ new.dependency_wait_id = IF req.wait = Null THEN Null ELSE req.wait.id
         /\ new.wait_for = waiting
         /\ new.wait_until_is_deadline => waiting # {}
         /\ new.lease_id = 0 /\ new.lease_worker_id = Null /\ new.lease_expires_at = 0
<1> DEFINE id == IF req.wait = Null THEN Null ELSE req.wait.id
           flag == req.is_deadline /\ waiting # {}
           at == rescheduled_available_at(req, waiting, t)
           alt == IF req.alternate = Null THEN Null
                  ELSE [job_type |-> req.alternate.job_type,
                        task_type |-> req.alternate.task_type,
                        at |-> t + req.alternate.after_seconds]
           new == rescheduled_row(row, req, waiting, t)
<1>1. new = [row EXCEPT !.dependency_wait_id = id, !.wait_for = waiting, !.available_at = at,
               !.wait_until_is_deadline = flag, !.lease_id = 0, !.lease_worker_id = Null,
               !.lease_route = Null, !.lease_expires_at = 0, !.consecutive_expirations = 0,
               !.route = req.route, !.alternate = alt]
  BY Zenon DEF rescheduled_row
<1> HIDE DEF id, flag, at, alt, new
<1>2. /\ new.dependency_wait_id = id /\ new.wait_for = waiting
      /\ new.wait_until_is_deadline = flag
      /\ new.lease_id = 0 /\ new.lease_worker_id = Null /\ new.lease_expires_at = 0
  BY <1>1 DEF JobRow
<1> QED
  BY <1>2 DEF id, flag, new

-----------------------------------------------------------------------------
(* The inductive invariant *)

(* The targets that a stored wait names have been submitted or created.     *)
KnownRow(j, i) ==
  waits[j][i] # Null =>
    \A k \in DOMAIN waits[j][i].descriptor :
      LET t == waits[j][i].descriptor[k].target IN
      IF t.kind = "job" THEN facts[t.id] # Null ELSE goals[t.id] # Null

KnownInv == \A j \in Job, i \in WaitId : KnownRow(j, i)

(* A request to reschedule whose route passed the checks.                   *)
RouteAccepted(req) ==
  /\ native_route_valid(req.route)
  /\ req.alternate # Null /\ req.alternate.task_type # Null => req.route.work_kind = "TASK"

(* An open call is for an active job, and nobody deletes meanwhile.         *)
CallInv ==
  /\ \A j \in deleting : facts[j] # Null
  /\ call # Null =>
       /\ deleting = {}
       /\ jobs[call.job] # Null
       /\ call.req # Null => RouteAccepted(call.req)

(* The inductive invariant.                                                 *)
IInv == TypeOK /\ RoutesValid /\ TargetsExact /\ KnownInv /\ CallInv

-----------------------------------------------------------------------------
(* Steps of the waits *)

WaitTable == [Job -> [WaitId -> WaitRow \cup {Null}]]

(* Jobs and goals, once known, stay known.                                  *)
Grow ==
  /\ \A g \in Goal : goals[g] # Null => goals'[g] # Null
  /\ \A j \in Job : facts[j] # Null => facts'[j] # Null

(* No wait disappears or changes its meaning, no decision is revised.       *)
Kept ==
  \A j \in Job, i \in WaitId : waits[j][i] # Null =>
    /\ waits'[j][i] # Null
    /\ waits'[j][i].descriptor = waits[j][i].descriptor
    /\ waits'[j][i].deadline = waits[j][i].deadline
    /\ waits[j][i].state # "PENDING" => waits'[j][i] = waits[j][i]

(* A dependency that is pending after the step has been evaluated by it, or *)
(* is an old one on a target that was not settled.                          *)
Fresh(settled) ==
  \A j \in Job, i \in WaitId :
    waits'[j][i] # Null /\ waits'[j][i].state = "PENDING" =>
      \A k \in DOMAIN waits'[j][i].deps : waits'[j][i].deps[k].state = "PENDING" =>
        \/ Undecided(waits'[j][i].descriptor[k].target, goals', archive')
        \/ waits'[j][i] = waits[j][i] /\ waits[j][i].descriptor[k].target \notin settled

(* What every step that writes dependency_waits guarantees.                 *)
WaitStep(settled) ==
  /\ waits' \in WaitTable
  /\ targets' \subseteq TargetRow
  /\ Kept
  /\ Fresh(settled)
  /\ TargetsExact'
  /\ KnownInv'

(* The steps that leave the waits alone.                                    *)
LEMMA WaitsUnchanged ==
  ASSUME TypeOK, TargetsExact, KnownInv, Grow, UNCHANGED <<waits, targets>>
  PROVE  WaitStep({})
<1>1. waits' \in WaitTable /\ targets' \subseteq TargetRow /\ TargetsExact'
  BY DEF TypeOK, WaitTable, TargetsExact
<1>2. Kept
  BY DEF Kept
<1>3. Fresh({})
  BY DEF Fresh
<1>4. KnownInv'
  <2> SUFFICES ASSUME NEW j \in Job, NEW i \in WaitId, waits[j][i] # Null,
                      NEW k \in DOMAIN waits[j][i].descriptor
               PROVE  LET t == waits[j][i].descriptor[k].target IN
                      IF t.kind = "job" THEN facts'[t.id] # Null ELSE goals'[t.id] # Null
    BY DEF KnownInv, KnownRow
  <2>1. waits[j][i] \in WaitRow
    BY DEF TypeOK
  <2>2. waits[j][i].descriptor[k].target \in Target
    BY <2>1, WaitRowParts, DescriptorType DEF Dependency
  <2> QED
    BY <2>2 DEF KnownInv, KnownRow, Grow, Target
<1> QED
  BY <1>1, <1>2, <1>3, <1>4 DEF WaitStep

(* _save_wait for every wait that changed makes dependency_targets exact.   *)
LEMMA SaveWaitsExact ==
  ASSUME TargetsExact, NEW saved, save_waits(saved),
         \A j \in Job, i \in WaitId : <<j, i>> \notin saved => waits'[j][i] = waits[j][i]
  PROVE  TargetsExact' /\ targets' \subseteq TargetRow
<1>1. ASSUME NEW t \in TargetRow
      PROVE  t \in targets' <=> pending_target(waits', t)
  <2>1. t.job \in Job /\ t.wait \in WaitId
    BY DEF TargetRow
  <2>2. CASE <<t.job, t.wait>> \in saved
    BY <2>2 DEF save_waits
  <2>3. CASE <<t.job, t.wait>> \notin saved
    <3>1. waits'[t.job][t.wait] = waits[t.job][t.wait]
      BY <2>1, <2>3
    <3>2. pending_target(waits', t) <=> pending_target(waits, t)
      BY <3>1 DEF pending_target
    <3> QED
      BY <2>3, <3>2 DEF save_waits, TargetsExact
  <2> QED
    BY <2>2, <2>3
<1>2. targets' \subseteq TargetRow
  BY DEF save_waits
<1> QED
  BY <1>1, <1>2 DEF TargetsExact

(* A wait that keeps its descriptor keeps its known targets.                *)
LEMMA KnownKept ==
  ASSUME TypeOK, KnownInv, Grow, NEW j \in Job, NEW i \in WaitId,
         waits'[j][i] # Null =>
           waits[j][i] # Null /\ waits'[j][i].descriptor = waits[j][i].descriptor
  PROVE  KnownRow(j, i)'
<1> SUFFICES ASSUME waits'[j][i] # Null,
                    NEW k \in DOMAIN waits'[j][i].descriptor
             PROVE  LET t == waits'[j][i].descriptor[k].target IN
                    IF t.kind = "job" THEN facts'[t.id] # Null ELSE goals'[t.id] # Null
  BY DEF KnownInv, KnownRow
<1>1. waits[j][i] \in WaitRow /\ waits'[j][i].descriptor = waits[j][i].descriptor
  BY DEF TypeOK
<1>2. waits[j][i].descriptor[k].target \in Target
  BY <1>1, WaitRowParts, DescriptorType DEF Dependency
<1> QED
  BY <1>1, <1>2 DEF KnownInv, KnownRow, Grow, Target

(* The goals that a known wait names exist, also after the step.            *)
LEMMA KnownGoals ==
  ASSUME TypeOK, KnownInv, Grow, NEW j \in Job, NEW i \in WaitId, waits[j][i] # Null
  PROVE  waits[j][i] \in WaitRow /\ GoalsKnown(waits[j][i], goals')
         /\ GoalsKnown(waits[j][i], goals)
<1>1. waits[j][i] \in WaitRow
  BY DEF TypeOK
<1>2. \A k \in DOMAIN waits[j][i].descriptor : waits[j][i].descriptor[k].target \in Target
  BY <1>1, WaitRowParts, DescriptorType DEF Dependency
<1> QED
  BY <1>1, <1>2 DEF KnownInv, KnownRow, Grow, Target, GoalsKnown

(* What a step does to one wait that it does not insert.                    *)
RowStep(j, i, settled) ==
  /\ waits'[j][i] \in WaitRow \cup {Null}
  /\ waits'[j][i] # Null <=> waits[j][i] # Null
  /\ waits[j][i] # Null =>
       /\ waits'[j][i].descriptor = waits[j][i].descriptor
       /\ waits'[j][i].deadline = waits[j][i].deadline
       /\ waits[j][i].state # "PENDING" => waits'[j][i] = waits[j][i]
  /\ waits'[j][i] # Null /\ waits'[j][i].state = "PENDING" =>
       \A k \in DOMAIN waits'[j][i].deps : waits'[j][i].deps[k].state = "PENDING" =>
         \/ Undecided(waits'[j][i].descriptor[k].target, goals', archive')
         \/ waits'[j][i] = waits[j][i] /\ waits[j][i].descriptor[k].target \notin settled

(* What a step does to one wait that it inserts.                            *)
RowInserted(j, i) ==
  /\ waits[j][i] = Null
  /\ waits'[j][i] \in WaitRow
  /\ KnownRow(j, i)'
  /\ waits'[j][i].state = "PENDING" =>
       \A k \in DOMAIN waits'[j][i].deps : waits'[j][i].deps[k].state = "PENDING" =>
         Undecided(waits'[j][i].descriptor[k].target, goals', archive')

(* A wait that _evaluate_wait has looked at, in the updated tables.         *)
LEMMA EvaluatedRow ==
  ASSUME TypeOK, KnownInv, Grow, goals' \in GoalTable, archive' \in ArchiveTable,
         NEW settled, NEW j \in Job, NEW i \in WaitId, waits[j][i] # Null,
         waits'[j][i] = evaluate_wait(waits[j][i], now, goals', archive')
  PROVE  RowStep(j, i, settled)
<1>1. waits[j][i] \in WaitRow /\ GoalsKnown(waits[j][i], goals')
  BY KnownGoals
<1>2. now \in Nat
  BY TimeAssumption DEF TypeOK
<1>3. LET v == waits'[j][i] IN
      /\ v \in WaitRow
      /\ v.descriptor = waits[j][i].descriptor
      /\ v.deadline = waits[j][i].deadline
      /\ waits[j][i].state # "PENDING" => v = waits[j][i]
      /\ v.state = "PENDING" =>
           \A k \in DOMAIN v.deps : v.deps[k].state = "PENDING" =>
             Undecided(v.descriptor[k].target, goals', archive')
  BY <1>1, <1>2, EvaluateWaitType
<1> QED
  BY <1>3, RowAssumption DEF RowStep

(* A pending wait that _cancel_waits has closed.                            *)
LEMMA ClosedRow ==
  ASSUME TypeOK, NEW settled, NEW j \in Job, NEW i \in WaitId,
         waits[j][i] # Null, waits[j][i].state = "PENDING",
         waits'[j][i] = close_wait(waits[j][i], "CANCELLED")
  PROVE  RowStep(j, i, settled)
<1>1. waits[j][i] \in WaitRow /\ "CANCELLED" \in WaitState
  BY DEF TypeOK, WaitState
<1>2. LET v == waits'[j][i] IN
      /\ v \in WaitRow
      /\ v.descriptor = waits[j][i].descriptor
      /\ v.deadline = waits[j][i].deadline
      /\ v.state = "CANCELLED"
  BY <1>1, CloseWaitType
<1> QED
  BY <1>2, RowAssumption DEF RowStep

(* A wait that the step leaves alone; none of its pending targets is        *)
(* settled.                                                                 *)
LEMMA SameRow ==
  ASSUME TypeOK, TargetsExact, NEW settled, NEW j \in Job, NEW i \in WaitId,
         waits'[j][i] = waits[j][i],
         \A t \in settled : [job |-> j, wait |-> i, target |-> t] \notin targets
  PROVE  RowStep(j, i, settled)
<1>1. waits[j][i] \in WaitRow \cup {Null}
  BY DEF TypeOK
<1>2. ASSUME waits[j][i] # Null, waits[j][i].state = "PENDING",
             NEW k \in DOMAIN waits[j][i].deps, waits[j][i].deps[k].state = "PENDING"
      PROVE  waits[j][i].descriptor[k].target \notin settled
  <2> DEFINE t == waits[j][i].descriptor[k].target
             r == [job |-> j, wait |-> i, target |-> t]
  <2>1. t \in Target
    BY <1>1, <1>2, WaitRowParts, DescriptorType DEF Dependency
  <2>2. r \in TargetRow
    BY <2>1 DEF TargetRow
  <2>3. pending_target(waits, r)
    BY <1>2 DEF pending_target
  <2>4. r \in targets
    BY <2>2, <2>3 DEF TargetsExact
  <2> QED
    BY <2>4
<1> QED
  BY <1>1, <1>2 DEF RowStep

(* Row by row the step is a WaitStep, once _save_wait has been called for   *)
(* every wait that changed.                                                 *)
LEMMA RowSteps ==
  ASSUME TypeOK, TargetsExact, KnownInv, Grow, NEW settled, NEW saved, save_waits(saved),
         waits' = [j \in Job |-> [i \in WaitId |-> waits'[j][i]]],
         \A j \in Job, i \in WaitId : RowStep(j, i, settled) \/ RowInserted(j, i),
         \A j \in Job, i \in WaitId : <<j, i>> \notin saved => waits'[j][i] = waits[j][i]
  PROVE  WaitStep(settled)
<1>1. TargetsExact' /\ targets' \subseteq TargetRow
  BY SaveWaitsExact
<1>2. waits' \in WaitTable
  BY DEF RowStep, RowInserted, WaitTable
<1>3. Kept
  BY DEF RowStep, RowInserted, Kept
<1>4. Fresh(settled)
  BY DEF RowStep, RowInserted, Fresh
<1>5. ASSUME NEW j \in Job, NEW i \in WaitId
      PROVE  KnownRow(j, i)'
  <2>1. CASE RowInserted(j, i)
    BY <2>1 DEF RowInserted
  <2>2. CASE RowStep(j, i, settled)
    <3>1. waits'[j][i] # Null =>
            waits[j][i] # Null /\ waits'[j][i].descriptor = waits[j][i].descriptor
      BY <2>2 DEF RowStep
    <3> QED
      BY <3>1, KnownKept
  <2> QED
    BY <2>1, <2>2
<1>6. KnownInv'
  BY <1>5 DEF KnownInv
<1> QED
  BY <1>1, <1>2, <1>3, <1>4, <1>6 DEF WaitStep

(* _settle_target and _cancel_waits.                                        *)
LEMMA SettleStep ==
  ASSUME TypeOK, TargetsExact, KnownInv, Grow, goals' \in GoalTable, archive' \in ArchiveTable,
         NEW settled, NEW cancelled,
         \A j \in Job, i \in WaitId : <<j, i>> \in cancelled =>
           waits[j][i] # Null /\ waits[j][i].state = "PENDING",
         settle(settled, cancelled)
  PROVE  WaitStep(settled)
<1> DEFINE affected == {p \in Job \X WaitId :
                          \E t \in settled :
                            [job |-> p[1], wait |-> p[2], target |-> t] \in targets}
<1>1. /\ waits' = [j \in Job |-> [i \in WaitId |->
                     IF <<j, i>> \in cancelled THEN close_wait(waits[j][i], "CANCELLED")
                     ELSE IF <<j, i>> \in affected
                     THEN evaluate_wait(waits[j][i], now, goals', archive')
                     ELSE waits[j][i]]]
      /\ save_waits(affected \cup cancelled)
  BY DEF settle
<1>2. ASSUME NEW j \in Job, NEW i \in WaitId
      PROVE  <<j, i>> \in affected <=>
               \E t \in settled : [job |-> j, wait |-> i, target |-> t] \in targets
  OBVIOUS
<1>3. ASSUME NEW j \in Job, NEW i \in WaitId, <<j, i>> \in affected
      PROVE  waits[j][i] # Null
  <2>1. PICK t \in settled : [job |-> j, wait |-> i, target |-> t] \in targets
    BY <1>2, <1>3
  <2>2. pending_target(waits, [job |-> j, wait |-> i, target |-> t])
    BY <2>1 DEF TargetsExact
  <2> QED
    BY <2>2 DEF pending_target
<1> HIDE DEF affected
<1>4. ASSUME NEW j \in Job, NEW i \in WaitId
      PROVE  RowStep(j, i, settled)
  <2>1. CASE <<j, i>> \in cancelled
    <3>1. waits'[j][i] = close_wait(waits[j][i], "CANCELLED")
      BY <1>1, <2>1
    <3> QED
      BY <2>1, <3>1, ClosedRow
  <2>2. CASE <<j, i>> \notin cancelled /\ <<j, i>> \in affected
    <3>1. waits'[j][i] = evaluate_wait(waits[j][i], now, goals', archive')
      BY <1>1, <2>2
    <3> QED
      BY <1>3, <2>2, <3>1, EvaluatedRow
  <2>3. CASE <<j, i>> \notin cancelled /\ <<j, i>> \notin affected
    <3>1. waits'[j][i] = waits[j][i]
      BY <1>1, <2>3
    <3> QED
      BY <1>2, <2>3, <3>1, SameRow
  <2> QED
    BY <2>1, <2>2, <2>3
<1>5. waits' = [j \in Job |-> [i \in WaitId |-> waits'[j][i]]]
  BY <1>1
<1>6. \A j \in Job, i \in WaitId :
        <<j, i>> \notin affected \cup cancelled => waits'[j][i] = waits[j][i]
  BY <1>1
<1> QED
  BY <1>1, <1>4, <1>5, <1>6, RowSteps

(* _expire_goal_waits.                                                      *)
LEMMA ExpireStep ==
  ASSUME TypeOK, TargetsExact, KnownInv, UNCHANGED <<goals, archive, facts>>, expire_goal_waits
  PROVE  WaitStep({})
<1>1. /\ waits' = [j \in Job |-> [i \in WaitId |->
                     IF due(j, i) THEN evaluate_wait(waits[j][i], now, goals, archive)
                     ELSE waits[j][i]]]
      /\ save_waits(due_waits)
  BY DEF expire_goal_waits
<1>2. Grow /\ goals' \in GoalTable /\ archive' \in ArchiveTable
  BY DEF Grow, TypeOK, GoalTable, ArchiveTable
<1>3. ASSUME NEW j \in Job, NEW i \in WaitId
      PROVE  RowStep(j, i, {})
  <2>1. CASE due(j, i)
    <3>1. waits'[j][i] = evaluate_wait(waits[j][i], now, goals', archive')
      BY <1>1, <2>1
    <3>2. waits[j][i] # Null
      BY <2>1 DEF due
    <3> QED
      BY <1>2, <3>1, <3>2, EvaluatedRow
  <2>2. CASE ~due(j, i)
    <3>1. waits'[j][i] = waits[j][i]
      BY <1>1, <2>2
    <3> QED
      BY <3>1, SameRow
  <2> QED
    BY <2>1, <2>2
<1>4. waits' = [j \in Job |-> [i \in WaitId |-> waits'[j][i]]]
  BY <1>1
<1>5. \A j \in Job, i \in WaitId : <<j, i>> \notin due_waits => waits'[j][i] = waits[j][i]
  BY <1>1 DEF due_waits
<1> QED
  BY <1>1, <1>2, <1>3, <1>4, <1>5, RowSteps

(* A new wait: registered with existing targets and evaluated at once.      *)
LEMMA InsertedRow ==
  ASSUME TypeOK, goals' \in GoalTable, archive' \in ArchiveTable,
         NEW j \in Job, NEW i \in WaitId, waits[j][i] = Null,
         NEW deps \in Descriptors, NEW deadline \in Time, targets_exist(j, deps),
         waits'[j][i] = evaluate_wait(new_wait(deps, deadline), now, goals', archive')
  PROVE  RowInserted(j, i)
<1> DEFINE w == new_wait(deps, deadline)
<1>1. w \in WaitRow /\ w.descriptor = deps
  BY NewWaitType
<1>2. now \in Nat
  BY TimeAssumption DEF TypeOK
<1> HIDE DEF w
<1>3. GoalsKnown(w, goals')
  BY <1>1 DEF GoalsKnown, targets_exist
<1>4. LET v == waits'[j][i] IN
      /\ v \in WaitRow
      /\ v.descriptor = deps
      /\ v.state = "PENDING" =>
           \A k \in DOMAIN v.deps : v.deps[k].state = "PENDING" =>
             Undecided(v.descriptor[k].target, goals', archive')
  <2>1. waits'[j][i] = evaluate_wait(w, now, goals', archive')
    BY DEF w
  <2> QED
    BY <1>1, <1>2, <1>3, <2>1, EvaluateWaitType
<1>5. ASSUME NEW k \in DOMAIN deps
      PROVE  LET t == deps[k].target IN
             IF t.kind = "job" THEN facts'[t.id] # Null ELSE goals'[t.id] # Null
  <2>1. deps[k].target \in Target
    BY DescriptorType DEF Dependency
  <2> QED
    BY <2>1 DEF targets_exist, Target
<1>6. KnownRow(j, i)'
  BY <1>4, <1>5 DEF KnownRow
<1> QED
  BY <1>4, <1>6 DEF RowInserted

(* _register_wait.                                                          *)
LEMMA StoreStep ==
  ASSUME TypeOK, TargetsExact, KnownInv, Grow, goals' \in GoalTable, archive' = archive,
         NEW j \in Job, NEW id \in WaitId, NEW deps \in Descriptors, NEW deadline \in Time,
         waits[j][id] = Null => targets_exist(j, deps),
         store_wait(j, id, deps, deadline)
  PROVE  WaitStep({})
<1> DEFINE cancelled == {p \in pending_waits(j) : p[2] # id}
           old == waits[j][id]
           first == IF old = Null THEN new_wait(deps, deadline) ELSE old
<1>1. /\ waits' = [waits EXCEPT ![j] = [i \in WaitId |->
                     IF i = id THEN evaluate_wait(first, now, goals', archive)
                     ELSE IF <<j, i>> \in cancelled THEN close_wait(waits[j][i], "CANCELLED")
                     ELSE waits[j][i]]]
      /\ save_waits(cancelled \cup {<<j, id>>})
  BY DEF store_wait
<1>2. archive' \in ArchiveTable
  BY DEF TypeOK, ArchiveTable
<1>3. waits \in WaitTable
  BY DEF TypeOK, WaitTable
<1>4. \A i \in WaitId : <<j, i>> \in cancelled =>
        i # id /\ waits[j][i] # Null /\ waits[j][i].state = "PENDING"
  BY DEF pending_waits
<1>5. \A k \in Job, i \in WaitId : <<k, i>> \in cancelled => k = j
  BY DEF pending_waits
<1> HIDE DEF cancelled, first
<1>6. waits'[j][id] = evaluate_wait(first, now, goals', archive')
  BY <1>1, <1>3 DEF WaitTable
<1>7. \A i \in WaitId : <<j, i>> \in cancelled =>
        waits'[j][i] = close_wait(waits[j][i], "CANCELLED")
  BY <1>1, <1>3, <1>4 DEF WaitTable
<1>8. \A k \in Job, i \in WaitId :
        <<k, i>> \notin cancelled \cup {<<j, id>>} => waits'[k][i] = waits[k][i]
  BY <1>1, <1>3 DEF WaitTable
<1>9. ASSUME NEW k \in Job, NEW i \in WaitId
      PROVE  RowStep(k, i, {}) \/ RowInserted(k, i)
  <2>1. CASE k = j /\ i = id /\ old = Null
    <3>1. first = new_wait(deps, deadline)
      BY <2>1 DEF first
    <3> QED
      BY <1>2, <1>6, <2>1, <3>1, InsertedRow
  <2>2. CASE k = j /\ i = id /\ old # Null
    <3>1. first = old
      BY <2>2 DEF first
    <3> QED
      BY <1>2, <1>6, <2>2, <3>1, EvaluatedRow
  <2>3. CASE <<k, i>> \in cancelled
    BY <1>4, <1>5, <1>7, <2>3, ClosedRow
  <2>4. CASE <<k, i>> \notin cancelled \cup {<<j, id>>}
    BY <1>8, <2>4, SameRow
  <2> QED
    BY <2>1, <2>2, <2>3, <2>4
<1>10. waits' = [k \in Job |-> [i \in WaitId |-> waits'[k][i]]]
  BY <1>1, <1>3 DEF WaitTable
<1> QED
  BY <1>1, <1>8, <1>9, <1>10, RowSteps

-----------------------------------------------------------------------------
(* Steps of the other tables *)

JobTable == [Job -> JobRow \cup {Null}]

(* Only the targets in settled are decided by the step.                     *)
Decides(settled) ==
  /\ \A j \in Job : archive'[j] # archive[j] => JobTarget(j) \in settled
  /\ \A g \in Goal : goals[g] # Null /\ goals'[g] # goals[g] => GoalTarget(g) \in settled

(* The part of a step that is about waits and what they wait for.           *)
WaitsFollow == \E S \in SUBSET Target : WaitStep(S) /\ Decides(S)

(* What every step does.                                                    *)
Preserves == TypeOK' /\ RoutesValid' /\ CallInv' /\ WaitsFollow

(* RoutesValid is a property of each row.                                   *)
LEMMA RoutesOfRows ==
  RoutesValid <=> \A j \in Job : jobs[j] # Null => RowRoutes(jobs[j])
  BY DEF RoutesValid, RowRoutes

(* Nothing happens to waits, goals, facts and jobs_archive.                 *)
LEMMA QuietStep ==
  ASSUME IInv, UNCHANGED <<facts, archive, goals, waits, targets>>
  PROVE  WaitsFollow
<1>1. Grow
  BY DEF Grow
<1>2. WaitStep({})
  BY <1>1, WaitsUnchanged DEF IInv
<1>3. Decides({})
  BY DEF Decides
<1> QED
  BY <1>2, <1>3 DEF WaitsFollow

(* One row of jobs is inserted or replaced by a legal one.                  *)
LEMMA JobsExcept ==
  ASSUME TypeOK, RoutesValid, NEW j \in Job, NEW row \in JobRow, RowRoutes(row),
         jobs' = [jobs EXCEPT ![j] = row]
  PROVE  /\ jobs' \in JobTable
         /\ RoutesValid'
         /\ \A k \in Job : jobs[k] # Null => jobs'[k] # Null
<1>1. jobs \in JobTable
  BY DEF TypeOK, JobTable
<1>2. \A k \in Job : jobs'[k] = IF k = j THEN row ELSE jobs[k]
  BY <1>1 DEF JobTable
<1>3. \A k \in Job : jobs'[k] # Null => RowRoutes(jobs'[k])
  BY <1>2, RoutesOfRows
<1>4. RoutesValid'
  BY <1>3 DEF RoutesValid, RowRoutes
<1>5. jobs' \in JobTable
  BY <1>1 DEF JobTable
<1> QED
  BY <1>2, <1>4, <1>5, JobRowAssumption

(* _archive_and_delete_job.                                                 *)
LEMMA ArchiveStep ==
  ASSUME IInv, NEW j \in Job, NEW outcome, [status |-> outcome] \in ArchiveRow,
         \A k \in Job : facts[k] # Null => facts'[k] # Null,
         archive_job(j, outcome)
  PROVE  /\ jobs' \in JobTable /\ archive' \in ArchiveTable /\ goals' \in GoalTable
         /\ RoutesValid'
         /\ WaitsFollow
<1> USE DEF IInv
<1> DEFINE won == won_goals(j, outcome)
           row == [status |-> outcome]
           end == [state |-> "SUCCEEDED", successful_job_id |-> j]
           S == terminal_targets(j, won)
<1>1. /\ archive' = [archive EXCEPT ![j] = row]
      /\ jobs' = [k \in Job |-> IF k = j \/ jobs[k] = Null THEN Null
                                ELSE forget_completed(jobs[k], j, now)]
      /\ goals' = [g \in Goal |-> IF g \in won THEN end ELSE goals[g]]
      /\ settle(S, pending_waits(j))
  BY DEF archive_job, archive_and_delete_job, update_waiters_for_completion
<1>2. end \in GoalRow /\ now \in Nat /\ won \subseteq Goal
  BY TimeAssumption DEF GoalRow, TypeOK, won_goals
<1>3. S \in SUBSET Target
  BY <1>2 DEF terminal_targets, Target, JobTarget, GoalTarget
<1>4. JobTarget(j) \in S /\ \A g \in won : GoalTarget(g) \in S
  BY DEF terminal_targets
<1> HIDE DEF won, row, end, S
<1>5. archive' \in ArchiveTable
  BY <1>1 DEF TypeOK, ArchiveTable, row
<1>6. goals' \in GoalTable
  BY <1>1, <1>2 DEF TypeOK, GoalTable
<1>7. \A k \in Job : jobs'[k] \in JobRow \cup {Null} /\ (jobs'[k] # Null => RowRoutes(jobs'[k]))
  <2> SUFFICES ASSUME NEW k \in Job, jobs'[k] # Null
               PROVE  jobs'[k] \in JobRow /\ RowRoutes(jobs'[k])
    OBVIOUS
  <2>1. jobs[k] # Null /\ jobs'[k] = forget_completed(jobs[k], j, now)
    BY <1>1
  <2>2. jobs[k] \in JobRow /\ RowRoutes(jobs[k])
    BY <2>1, RoutesOfRows DEF TypeOK
  <2> QED
    BY <1>2, <2>1, <2>2, ForgetCompletedType
<1>8. jobs' \in JobTable
  <2>1. jobs' = [k \in Job |-> jobs'[k]]
    BY <1>1
  <2> QED
    BY <1>7, <2>1 DEF JobTable
<1>9. RoutesValid'
  BY <1>7 DEF RoutesValid, RowRoutes
<1>10. Grow
  BY <1>1, <1>2, RowAssumption DEF Grow
<1>11. \A k \in Job, i \in WaitId : <<k, i>> \in pending_waits(j) =>
         waits[k][i] # Null /\ waits[k][i].state = "PENDING"
  BY DEF pending_waits
<1>12. WaitStep(S)
  BY <1>1, <1>5, <1>6, <1>10, <1>11, SettleStep
<1>13. Decides(S)
  <2>1. \A k \in Job : archive'[k] # archive[k] => JobTarget(k) \in S
    BY <1>1, <1>4 DEF TypeOK
  <2>2. \A g \in Goal : goals'[g] # goals[g] => GoalTarget(g) \in S
    BY <1>1, <1>4
  <2> QED
    BY <2>1, <2>2 DEF Decides
<1> QED
  BY <1>3, <1>5, <1>6, <1>8, <1>9, <1>12, <1>13 DEF WaitsFollow

(* _resolve_goal and fail_goal.                                             *)
LEMMA CloseGoalStep ==
  ASSUME IInv, NEW g \in Goal, NEW state \in {"SUCCEEDED", "FAILED"},
         NEW winner \in Job \cup {Null}, UNCHANGED <<facts, archive>>,
         close_goal(g, state, winner)
  PROVE  goals' \in GoalTable /\ WaitsFollow
<1> USE DEF IInv
<1> DEFINE end == [state |-> state, successful_job_id |-> winner]
           S == {GoalTarget(g)}
<1>1. goals' = [goals EXCEPT ![g] = end] /\ settle(S, {})
  BY DEF close_goal
<1>2. end \in GoalRow
  BY DEF GoalRow
<1>3. S \in SUBSET Target /\ GoalTarget(g) \in S
  BY DEF Target, GoalTarget
<1> HIDE DEF end, S
<1>4. goals' \in GoalTable /\ archive' \in ArchiveTable
  BY <1>1, <1>2 DEF TypeOK, GoalTable, ArchiveTable
<1>5. Grow
  BY <1>1, <1>2, RowAssumption DEF Grow, TypeOK
<1>6. WaitStep(S)
  BY <1>1, <1>4, <1>5, SettleStep
<1>7. Decides(S)
  BY <1>1, <1>3 DEF Decides, TypeOK
<1> QED
  BY <1>3, <1>4, <1>6, <1>7 DEF WaitsFollow

-----------------------------------------------------------------------------
(* The actions *)

(* prepare_job.                                                             *)
LEMMA PrepareStep ==
  ASSUME IInv, NEW req \in Preparations, NEW j \in Job, NEW g \in Goal,
         prepare_job(req, j, g)
  PROVE  Preserves
<1> DEFINE p == [goal |-> g, request |-> req.request, prior |-> req.prior, share |-> req.share,
                 deps |-> req.deps, published |-> FALSE]
<1>1. req \in PrepareRequest
  BY InputAssumption
<1>2. p \in Preparation
  BY <1>1 DEF PrepareRequest, Preparation
<1>3. /\ preparations' = [preparations EXCEPT ![j] = p]
      /\ UNCHANGED <<now, facts, jobs, archive, goals, candidates, waits, targets, nextLease,
                     poll, goalLock, call, deleting, renewal>>
  BY DEF prepare_job
<1> HIDE DEF p
<1>4. TypeOK'
  BY <1>2, <1>3 DEF IInv, TypeOK
<1>5. RoutesValid' /\ CallInv'
  BY <1>3 DEF IInv, RoutesValid, CallInv, lease_route_valid
<1> QED
  BY <1>3, <1>4, <1>5, QuietStep DEF Preserves

(* prepare_job of a prepared job.                                           *)
LEMMA ReprepareStep ==
  ASSUME IInv, NEW req \in Preparations, NEW j \in Job, reprepare_job(req, j)
  PROVE  Preserves
<1> DEFINE r == IF req.request # Null THEN req.request ELSE preparations[j].request
           p == [preparations[j] EXCEPT !.request = r]
<1>1. req \in PrepareRequest
  BY InputAssumption
<1>2. /\ preparations[j] # Null
      /\ preparations' = [preparations EXCEPT ![j] = p]
      /\ UNCHANGED <<now, facts, jobs, archive, goals, candidates, waits, targets, nextLease,
                     poll, goalLock, call, deleting, renewal>>
  BY DEF reprepare_job
<1>3. preparations[j] \in Preparation
  BY <1>2 DEF IInv, TypeOK
<1>4. r \in Request \cup {Null}
  BY <1>1, <1>3 DEF PrepareRequest, Preparation
<1> HIDE DEF r
<1>5. p \in Preparation
  BY <1>3, <1>4 DEF Preparation
<1> HIDE DEF p
<1>6. TypeOK'
  BY <1>2, <1>5 DEF IInv, TypeOK
<1>7. RoutesValid' /\ CallInv'
  BY <1>2 DEF IInv, RoutesValid, CallInv, lease_route_valid
<1> QED
  BY <1>2, <1>6, <1>7, QuietStep DEF Preserves

(* submit_native_job.                                                       *)
LEMMA SubmitStep ==
  ASSUME IInv, NEW req \in Submissions, NEW p_goal, NEW g \in Goal,
         submit_native_job(req, p_goal, g)
  PROVE  Preserves
<1> USE DEF IInv
<1> DEFINE j == req.job
           p == preparations[j]
           row == submitted_row(req, normalize_wait_for(req.wait_for), now)
           fact == [goal |-> g, deps |-> req.deps, parent |-> req.parent,
                    job_type |-> req.job_type, expires_at |-> req.expires_at, hidden |-> FALSE]
           open == [state |-> "OPEN", successful_job_id |-> Null]
           published == [p EXCEPT !.published = TRUE]
<1>1. req \in SubmitRequest
  BY InputAssumption
<1>2. /\ j \in Job /\ req.deps \in Descriptors \cup {<<>>} /\ fact \in Fact /\ open \in GoalRow
      /\ req.available_at \in Time \cup {Null} /\ req.expires_at \in Time
      /\ req.job_type \in JobType
  BY <1>1 DEF SubmitRequest, Fact, GoalRow
<1>3. now \in Nat /\ "submission" \in WaitId /\ normalize_wait_for(req.wait_for) \in SUBSET Job
  BY <1>1, TimeAssumption, InputAssumption DEF TypeOK, normalize_wait_for, SubmitRequest
<1>4. row \in JobRow /\ RowRoutes(row)
  BY <1>2, <1>3, SubmittedRowType
<1>5. /\ call = Null
      /\ facts[j] = Null
      /\ ~req.share => goals[g] = Null
      /\ goals' = IF req.share THEN goals ELSE [goals EXCEPT ![g] = open]
      /\ facts' = [facts EXCEPT ![j] = fact]
      /\ jobs' = [jobs EXCEPT ![j] = row]
      /\ preparations' = IF p = Null THEN preparations
                         ELSE [preparations EXCEPT ![j] = published]
      /\ UNCHANGED <<now, archive, candidates, nextLease, poll, goalLock, call, deleting, renewal>>
  BY DEF submit_native_job, goal_lock_free, first_submission, goal_granted
<1>6. IF req.deps = <<>> THEN UNCHANGED <<waits, targets>>
      ELSE targets_exist(j, req.deps) /\ store_wait(j, "submission", req.deps, Infinity)
  BY DEF submit_native_job
<1>7. p # Null => published \in Preparation
  <2> SUFFICES ASSUME p # Null PROVE published \in Preparation
    OBVIOUS
  <2>1. p \in Preparation
    BY <1>2 DEF TypeOK
  <2> QED
    BY <2>1 DEF Preparation
<1> HIDE DEF j, p, row, fact, open, published
<1>8. goals' \in GoalTable
  BY <1>2, <1>5 DEF TypeOK, GoalTable
<1>9. Grow
  BY <1>2, <1>5, RowAssumption, FactAssumption DEF Grow, TypeOK
<1>10. WaitStep({})
  <2>1. CASE req.deps = <<>>
    BY <1>6, <1>9, <2>1, WaitsUnchanged
  <2>2. CASE req.deps # <<>>
    <3>1. Infinity \in Time
      BY TimeAssumption DEF Infinity, Time
    <3> QED
      BY <1>2, <1>3, <1>5, <1>6, <1>8, <1>9, <2>2, <3>1, StoreStep
  <2> QED
    BY <2>1, <2>2
<1>11. Decides({})
  BY <1>5 DEF Decides, TypeOK
<1>12. jobs' \in JobTable /\ RoutesValid' /\ \A k \in Job : jobs[k] # Null => jobs'[k] # Null
  BY <1>2, <1>4, <1>5, JobsExcept
<1>13. TypeOK'
  <2>1. facts' \in [Job -> Fact \cup {Null}] /\ preparations' \in [Job -> Preparation \cup {Null}]
    BY <1>2, <1>5, <1>7 DEF TypeOK
  <2> QED
    BY <1>5, <1>8, <1>10, <1>12, <2>1 DEF TypeOK, WaitStep, WaitTable, JobTable, GoalTable
<1>14. CallInv'
  BY <1>5, <1>9 DEF CallInv, Grow, TypeOK
<1> QED
  BY <1>10, <1>11, <1>12, <1>13, <1>14 DEF Preserves, WaitsFollow

(* get_native_work, first step.                                             *)
LEMMA PollExpireStep ==
  ASSUME IInv, NEW w \in Worker, poll_expire(w)
  PROVE  Preserves
<1> USE DEF IInv
<1> DEFINE s == [phase |-> "expired", v_now |-> now, found |-> {}]
<1>1. /\ goalLock' = IF due_waits # {} THEN w ELSE goalLock
      /\ poll' = [poll EXCEPT ![w] = s]
      /\ expire_goal_waits
      /\ UNCHANGED <<now, facts, jobs, archive, goals, candidates, preparations, nextLease,
                     call, deleting, renewal>>
  BY DEF poll_expire
<1>2. s \in PollState
  BY DEF PollState, TypeOK
<1> HIDE DEF s
<1>3. WaitStep({})
  BY <1>1, ExpireStep
<1>4. Decides({})
  BY <1>1 DEF Decides
<1>5. TypeOK'
  BY <1>1, <1>2, <1>3 DEF TypeOK, WaitStep, WaitTable
<1>6. RoutesValid' /\ CallInv'
  BY <1>1 DEF RoutesValid, CallInv, lease_route_valid
<1> QED
  BY <1>3, <1>4, <1>5, <1>6 DEF Preserves, WaitsFollow

(* get_native_work, the snapshot.                                           *)
LEMMA PollSnapshotStep ==
  ASSUME IInv, NEW w \in Worker, poll_snapshot(w)
  PROVE  Preserves
<1> USE DEF IInv
<1> DEFINE F == {j \in Job : pollable(read_row(j), w) /\ status(j) = "READY"}
           s == [[poll[w] EXCEPT !.phase = "snapshot"] EXCEPT !.found = F]
<1>1. /\ poll' = [poll EXCEPT ![w].phase = "snapshot", ![w].found = F]
      /\ UNCHANGED <<now, tables, goalLock, call, deleting, renewal>>
  BY DEF poll_snapshot
<1>2. F \in SUBSET Job /\ poll[w] \in PollState
  BY DEF TypeOK
<1> HIDE DEF F
<1>3. s \in PollState
  BY <1>2 DEF PollState
<1>4. poll' = [poll EXCEPT ![w] = s]
  BY <1>1, <1>2 DEF TypeOK
<1> HIDE DEF s
<1>5. TypeOK'
  BY <1>1, <1>3, <1>4 DEF TypeOK, tables
<1>6. RoutesValid' /\ CallInv'
  BY <1>1 DEF RoutesValid, CallInv, lease_route_valid, tables
<1> QED
  BY <1>1, <1>5, <1>6, QuietStep DEF Preserves, tables

(* get_native_work: the poll is over.                                       *)
LEMMA ReleaseType ==
  ASSUME TypeOK, NEW w \in Worker, release_poll(w)
  PROVE  poll' \in [Worker -> PollState] /\ goalLock' \in Worker \cup {Null}
<1>1. IdlePoll \in PollState
  BY TimeAssumption DEF IdlePoll, PollState
<1> QED
  BY <1>1 DEF TypeOK, release_poll

(* get_native_work, the lease.                                              *)
LEMMA PollLockStep ==
  ASSUME IInv, NEW w \in Worker, NEW j \in Job, poll_lock(w, j)
  PROVE  Preserves
<1> USE DEF IInv
<1> DEFINE row == poll_lease(jobs[j], poll[w].v_now, nextLease, w, LeaseSeconds)
<1>1. /\ jobs[j] # Null
      /\ jobs' = [jobs EXCEPT ![j] = row]
      /\ nextLease' = nextLease + 1
      /\ release_poll(w)
      /\ UNCHANGED <<now, facts, archive, goals, candidates, preparations, waits, targets,
                     call, deleting, renewal>>
  BY DEF poll_lock, pollable
<1>2. jobs[j] \in JobRow /\ RowRoutes(jobs[j])
  BY <1>1, RoutesOfRows DEF TypeOK
<1>3. poll[w].v_now \in Nat /\ nextLease \in Nat \ {0} /\ LeaseSeconds \in Nat
  BY InputAssumption, TimeAssumption DEF TypeOK, PollState
<1>4. row \in JobRow /\ RowRoutes(row)
  BY <1>2, <1>3, PollLeaseType
<1> HIDE DEF row
<1>5. jobs' \in JobTable /\ RoutesValid' /\ \A k \in Job : jobs[k] # Null => jobs'[k] # Null
  BY <1>1, <1>4, JobsExcept
<1>6. TypeOK'
  BY <1>1, <1>3, <1>5, ReleaseType DEF TypeOK, JobTable
<1>7. CallInv'
  BY <1>1, <1>5 DEF CallInv, TypeOK, Call
<1> QED
  BY <1>1, <1>5, <1>6, <1>7, QuietStep DEF Preserves

(* get_native_work without work.                                            *)
LEMMA PollNoneStep ==
  ASSUME IInv, NEW w \in Worker, poll_none(w)
  PROVE  Preserves
<1> USE DEF IInv
<1>1. release_poll(w) /\ UNCHANGED <<now, tables, call, deleting, renewal>>
  BY DEF poll_none
<1>2. TypeOK'
  BY <1>1, ReleaseType DEF TypeOK, tables
<1>3. RoutesValid' /\ CallInv'
  BY <1>1 DEF RoutesValid, CallInv, lease_route_valid, tables
<1> QED
  BY <1>1, <1>2, <1>3, QuietStep DEF Preserves, tables

(* claim_native_task.                                                       *)
LEMMA ClaimStep ==
  ASSUME IInv, NEW w \in Worker, NEW j \in Job, NEW route, claim_native_task(w, j, route)
  PROVE  Preserves
<1> USE DEF IInv
<1> DEFINE row == claim_lease(jobs[j], now, nextLease, w, LeaseSeconds)
<1>1. /\ jobs[j] # Null
      /\ expire_goal_waits
      /\ jobs[j].route.work_kind = "TASK"
      /\ jobs' = [jobs EXCEPT ![j] = row]
      /\ nextLease' = nextLease + 1
      /\ UNCHANGED <<now, facts, archive, goals, candidates, preparations,
                     poll, goalLock, call, deleting, renewal>>
  BY DEF claim_native_task
<1>2. jobs[j] \in JobRow /\ RowRoutes(jobs[j])
  BY <1>1, RoutesOfRows DEF TypeOK
<1>3. jobs[j].route.coordinates # Null
  BY <1>1, <1>2 DEF RowRoutes, native_route_valid
<1>4. now \in Nat /\ nextLease \in Nat \ {0} /\ LeaseSeconds \in Nat
  BY InputAssumption, TimeAssumption DEF TypeOK
<1>5. row \in JobRow /\ RowRoutes(row)
  BY <1>2, <1>3, <1>4, ClaimLeaseType
<1> HIDE DEF row
<1>6. jobs' \in JobTable /\ RoutesValid' /\ \A k \in Job : jobs[k] # Null => jobs'[k] # Null
  BY <1>1, <1>5, JobsExcept
<1>7. WaitStep({})
  BY <1>1, ExpireStep
<1>8. Decides({})
  BY <1>1 DEF Decides
<1>9. TypeOK'
  BY <1>1, <1>4, <1>6, <1>7 DEF TypeOK, JobTable, WaitStep, WaitTable
<1>10. CallInv'
  BY <1>1, <1>6 DEF CallInv, TypeOK, Call
<1> QED
  BY <1>6, <1>7, <1>8, <1>9, <1>10 DEF Preserves, WaitsFollow

(* renew_native_lease.                                                      *)
LEMMA RenewStep ==
  ASSUME IInv, NEW j \in Job, NEW lease, NEW w, renew_native_lease(j, lease, w)
  PROVE  Preserves
<1> USE DEF IInv
<1> DEFINE t == now + LeaseSeconds
           row == [jobs[j] EXCEPT !.lease_expires_at = t]
<1>1. /\ jobs[j] # Null
      /\ jobs' = [jobs EXCEPT ![j] = row]
      /\ renewal' = [renewal EXCEPT ![j] = jobs[j].lease_expires_at]
      /\ UNCHANGED <<now, facts, archive, goals, candidates, preparations, waits, targets,
                     nextLease, poll, goalLock, call, deleting>>
  BY DEF renew_native_lease, extend_lease, extend_allowed
<1>2. jobs[j] \in JobRow /\ RowRoutes(jobs[j])
  BY <1>1, RoutesOfRows DEF TypeOK
<1>3. t \in Nat
  BY InputAssumption, TimeAssumption DEF TypeOK
<1> HIDE DEF t
<1>4. row \in JobRow /\ RowRoutes(row)
  BY <1>2, <1>3, RenewedRowType
<1> HIDE DEF row
<1>5. jobs' \in JobTable /\ RoutesValid' /\ \A k \in Job : jobs[k] # Null => jobs'[k] # Null
  BY <1>1, <1>4, JobsExcept
<1>6. TypeOK'
  <2>1. jobs[j].lease_expires_at \in Nat
    BY <1>2, JobRowParts
  <2> QED
    BY <1>1, <1>5, <2>1 DEF TypeOK, JobTable
<1>7. CallInv'
  BY <1>1, <1>5 DEF CallInv, TypeOK, Call
<1> QED
  BY <1>1, <1>5, <1>6, <1>7, QuietStep DEF Preserves

(* The renewal is committed.                                                *)
LEMMA CommitStep ==
  ASSUME IInv, NEW j \in Job, commit_renewal(j)
  PROVE  Preserves
<1> USE DEF IInv
<1>1. /\ renewal' = [renewal EXCEPT ![j] = Null]
      /\ UNCHANGED <<now, tables, poll, goalLock, call, deleting>>
  BY DEF commit_renewal
<1>2. TypeOK'
  BY <1>1 DEF TypeOK, tables
<1>3. RoutesValid' /\ CallInv'
  BY <1>1 DEF RoutesValid, CallInv, lease_route_valid, tables
<1> QED
  BY <1>1, <1>2, <1>3, QuietStep DEF Preserves, tables

(* clear_crash_concern.                                                     *)
LEMMA ClearStep ==
  ASSUME IInv, NEW j \in Job, clear_crash_concern(j)
  PROVE  Preserves
<1> USE DEF IInv
<1> DEFINE row == [jobs[j] EXCEPT !.consecutive_expirations = 0]
<1>1. /\ jobs[j] # Null
      /\ jobs' = [jobs EXCEPT ![j] = row]
      /\ UNCHANGED <<now, facts, archive, goals, candidates, preparations, waits, targets,
                     nextLease, poll, goalLock, call, deleting, renewal>>
  BY DEF clear_crash_concern
<1>2. jobs[j] \in JobRow /\ RowRoutes(jobs[j])
  BY <1>1, RoutesOfRows DEF TypeOK
<1>3. row \in JobRow /\ RowRoutes(row)
  BY <1>2, ClearedRowType
<1> HIDE DEF row
<1>4. jobs' \in JobTable /\ RoutesValid' /\ \A k \in Job : jobs[k] # Null => jobs'[k] # Null
  BY <1>1, <1>3, JobsExcept
<1>5. TypeOK'
  BY <1>1, <1>4 DEF TypeOK, JobTable
<1>6. CallInv'
  BY <1>1, <1>4 DEF CallInv, TypeOK, Call
<1> QED
  BY <1>1, <1>4, <1>5, <1>6, QuietStep DEF Preserves

(* _lock_job_for_status.                                                    *)
LEMMA LockStep ==
  ASSUME IInv, deleting = {}, NEW c \in Call, lock_job_for_status(c),
         c.req # Null => RouteAccepted(c.req)
  PROVE  Preserves
<1> USE DEF IInv
<1>1. call' = c /\ UNCHANGED <<now, tables, poll, goalLock, deleting, renewal>>
  BY DEF lock_job_for_status
<1>2. jobs[c.job] # Null
  BY DEF lock_job_for_status, unheld, validate_native_lease, lease_valid, read_row
<1>3. TypeOK'
  BY <1>1 DEF TypeOK, tables
<1>4. RoutesValid' /\ CallInv'
  BY <1>1, <1>2 DEF RoutesValid, CallInv, lease_route_valid, tables
<1> QED
  BY <1>1, <1>3, <1>4, QuietStep DEF Preserves, tables

(* complete_native_job and complete_native_unheld_job.                      *)
LEMMA CompleteStep ==
  ASSUME IInv, deleting = {}, NEW j \in Job, NEW lease \in Nat,
         NEW w \in Worker \cup {Null}, NEW outcome \in Completions,
         lock_job_for_status([job |-> j, lease |-> lease, worker |-> w, outcome |-> outcome,
                              req |-> Null])
  PROVE  Preserves
<1> DEFINE c == [job |-> j, lease |-> lease, worker |-> w, outcome |-> outcome, req |-> Null]
<1>1. c \in Call /\ c.req = Null
  BY DEF Call
<1> HIDE DEF c
<1>2. lock_job_for_status(c)
  BY DEF c
<1> QED
  BY <1>1, <1>2, LockStep

(* reschedule_native_job, first step.                                       *)
LEMMA RescheduleStep ==
  ASSUME IInv, deleting = {}, NEW req \in Reschedules, NEW lease \in Nat,
         NEW w \in Worker \cup {Null}, reschedule_native_job(req, lease, w)
  PROVE  Preserves
<1> DEFINE c == [job |-> req.job, lease |-> lease, worker |-> w, outcome |-> Null, req |-> req]
<1>1. req.job \in Job
  BY InputAssumption DEF RescheduleRequest
<1>2. c \in Call /\ c.req = req
  BY <1>1 DEF Call
<1>3. RouteAccepted(req) /\ lock_job_for_status(c)
  BY DEF reschedule_native_job, reschedule_valid, RouteAccepted
<1> HIDE DEF c
<1> QED
  BY <1>2, <1>3, LockStep

(* roll_back_call.                                                          *)
LEMMA RollBackStep ==
  ASSUME IInv, roll_back_call
  PROVE  Preserves
<1> USE DEF IInv
<1>1. call' = Null /\ UNCHANGED <<now, tables, poll, goalLock, deleting, renewal>>
  BY DEF roll_back_call
<1>2. TypeOK'
  BY <1>1 DEF TypeOK, tables
<1>3. RoutesValid' /\ CallInv'
  BY <1>1 DEF RoutesValid, CallInv, lease_route_valid, tables
<1> QED
  BY <1>1, <1>2, <1>3, QuietStep DEF Preserves, tables

(* _complete_native_locked_job.                                             *)
LEMMA CompleteLockedStep ==
  ASSUME IInv, NEW c \in {call} \ {Null}, complete_native_locked_job(c)
  PROVE  Preserves
<1> USE DEF IInv
<1>1. /\ archive_job(c.job, c.outcome)
      /\ c.outcome # Null
      /\ call' = Null
      /\ UNCHANGED <<now, facts, candidates, preparations, nextLease, poll, goalLock, deleting, renewal>>
  BY DEF complete_native_locked_job
<1>2. c \in Call
  BY DEF TypeOK
<1>3. c.job \in Job /\ [status |-> c.outcome] \in ArchiveRow
  BY <1>1, <1>2, InputAssumption DEF Call, ArchiveRow
<1>4. /\ jobs' \in JobTable /\ archive' \in ArchiveTable /\ goals' \in GoalTable
      /\ RoutesValid' /\ WaitsFollow
  BY <1>1, <1>3, ArchiveStep
<1>5. TypeOK'
  BY <1>1, <1>4 DEF TypeOK, JobTable, ArchiveTable, GoalTable, WaitsFollow, WaitStep, WaitTable
<1>6. CallInv'
  BY <1>1 DEF CallInv
<1> QED
  BY <1>4, <1>5, <1>6 DEF Preserves

(* cancel_native_job.                                                       *)
LEMMA CancelStep ==
  ASSUME IInv, NEW j \in Job, cancel_native_job(j)
  PROVE  Preserves
<1> USE DEF IInv
<1>1. /\ call = Null
      /\ archive_job(j, "cancelled")
      /\ UNCHANGED <<now, facts, candidates, preparations, nextLease, poll, goalLock, call,
                     deleting, renewal>>
  BY DEF cancel_native_job, goal_lock_free
<1>2. [status |-> "cancelled"] \in ArchiveRow
  BY DEF ArchiveRow
<1>3. /\ jobs' \in JobTable /\ archive' \in ArchiveTable /\ goals' \in GoalTable
      /\ RoutesValid' /\ WaitsFollow
  BY <1>1, <1>2, ArchiveStep
<1>4. TypeOK'
  BY <1>1, <1>3 DEF TypeOK, JobTable, ArchiveTable, GoalTable, WaitsFollow, WaitStep, WaitTable
<1>5. CallInv'
  BY <1>1 DEF CallInv
<1> QED
  BY <1>3, <1>4, <1>5 DEF Preserves

(* reschedule_native_job, second step.                                      *)
LEMMA RescheduleLockedStep ==
  ASSUME IInv, NEW c \in {call} \ {Null}, reschedule_locked_job(c)
  PROVE  Preserves
<1> USE DEF IInv
<1> DEFINE j == c.job
           req == c.req
           waiting == normalize_wait_for(req.wait_for)
           row == rescheduled_row(jobs[j], req, waiting, now)
<1>1. /\ req # Null
      /\ jobs' = [jobs EXCEPT ![j] = row]
      /\ call' = Null
      /\ UNCHANGED <<now, facts, archive, goals, candidates, preparations, nextLease,
                     poll, goalLock, deleting, renewal>>
  BY DEF reschedule_locked_job
<1>2. IF req.wait = Null THEN settle({}, pending_waits(j))
      ELSE /\ waits[j][req.wait.id] = Null => targets_exist(j, req.wait.deps)
           /\ store_wait(j, req.wait.id, req.wait.deps, req.wait.deadline)
  BY DEF reschedule_locked_job
<1>3. c \in Call
  BY DEF TypeOK
<1>4. j \in Job /\ req \in RescheduleRequest
  BY <1>1, <1>3, InputAssumption DEF Call
<1>5. jobs[j] \in JobRow /\ RouteAccepted(req)
  BY <1>1, <1>4 DEF CallInv, TypeOK
<1> HIDE DEF j, req
<1>6. /\ req.wait # Null =>
           /\ req.wait.id \in WaitId /\ req.wait.deps \in Descriptors
           /\ req.wait.deadline \in Time
      /\ req.available_at \in Time \cup {Null} /\ req.is_deadline \in BOOLEAN
      /\ req.route \in Route
      /\ req.alternate # Null =>
           /\ req.alternate.job_type \in JobType
           /\ req.alternate.task_type \in TaskType \cup {Null}
           /\ req.alternate.after_seconds \in Nat
  BY <1>4 DEF RescheduleRequest
<1>7. waiting \in SUBSET Job /\ now \in Nat
  BY <1>4, TimeAssumption DEF normalize_wait_for, RescheduleRequest, TypeOK
<1> HIDE DEF waiting
<1>8. row \in JobRow /\ RowRoutes(row)
  BY <1>5, <1>6, <1>7, RescheduledRowType DEF RouteAccepted
<1> HIDE DEF row
<1>9. jobs' \in JobTable /\ RoutesValid' /\ \A k \in Job : jobs[k] # Null => jobs'[k] # Null
  BY <1>1, <1>4, <1>8, JobsExcept
<1>10. Grow /\ goals' \in GoalTable /\ archive' \in ArchiveTable
  BY <1>1 DEF Grow, TypeOK, GoalTable, ArchiveTable
<1>11. WaitStep({})
  <2>1. CASE req.wait = Null
    <3>1. \A k \in Job, i \in WaitId : <<k, i>> \in pending_waits(j) =>
            waits[k][i] # Null /\ waits[k][i].state = "PENDING"
      BY DEF pending_waits
    <3> QED
      BY <1>2, <1>10, <2>1, <3>1, SettleStep
  <2>2. CASE req.wait # Null
    BY <1>1, <1>2, <1>4, <1>6, <1>10, <2>2, StoreStep
  <2> QED
    BY <2>1, <2>2
<1>12. Decides({})
  BY <1>1 DEF Decides
<1>13. TypeOK'
  BY <1>1, <1>9, <1>11 DEF TypeOK, JobTable, WaitStep, WaitTable
<1>14. CallInv'
  BY <1>1 DEF CallInv
<1> QED
  BY <1>9, <1>11, <1>12, <1>13, <1>14 DEF Preserves, WaitsFollow

(* delete_native_jobs.                                                      *)
LEMMA DeleteStep ==
  ASSUME IInv, NEW S \in Deletions, delete_native_jobs(S)
  PROVE  Preserves
<1> USE DEF IInv
<1>1. /\ call = Null
      /\ deleting' = {j \in S : facts[j] # Null /\ ~facts[j].hidden}
      /\ UNCHANGED <<now, tables, poll, goalLock, call, renewal>>
  BY DEF delete_native_jobs, goal_lock_free
<1>2. S \subseteq Job
  BY InputAssumption
<1>3. TypeOK'
  BY <1>1, <1>2 DEF TypeOK, tables
<1>4. RoutesValid' /\ CallInv'
  BY <1>1 DEF RoutesValid, CallInv, lease_route_valid, tables
<1> QED
  BY <1>1, <1>3, <1>4, QuietStep DEF Preserves, tables

(* delete_native_jobs, one job.                                             *)
LEMMA DeleteOneStep ==
  ASSUME IInv, NEW j \in deleting, delete_one_job(j)
  PROVE  Preserves
<1> USE DEF IInv
<1> DEFINE fact == [facts[j] EXCEPT !.hidden = TRUE]
<1>1. /\ deleting' = deleting \ {j}
      /\ facts' = [facts EXCEPT ![j] = fact]
      /\ UNCHANGED <<now, candidates, preparations, nextLease, poll, goalLock, call, renewal>>
  BY DEF delete_one_job
<1>2. IF jobs[j] # Null THEN archive_job(j, "cancelled")
      ELSE UNCHANGED <<jobs, archive, goals, waits, targets>>
  BY DEF delete_one_job, deletion_outcome
<1>3. j \in Job /\ facts[j] \in Fact /\ call = Null
  BY DEF TypeOK, CallInv
<1>4. fact \in Fact
  BY <1>3 DEF Fact
<1> HIDE DEF fact
<1>5. /\ facts' \in [Job -> Fact \cup {Null}]
      /\ \A k \in Job : facts[k] # Null => facts'[k] # Null
  BY <1>1, <1>4, FactAssumption DEF TypeOK
<1>6. /\ jobs' \in JobTable /\ archive' \in ArchiveTable /\ goals' \in GoalTable
      /\ RoutesValid' /\ WaitsFollow
  <2>1. CASE jobs[j] # Null
    <3>1. [status |-> "cancelled"] \in ArchiveRow
      BY DEF ArchiveRow
    <3> QED
      BY <1>2, <1>3, <1>5, <2>1, <3>1, ArchiveStep
  <2>2. CASE jobs[j] = Null
    <3>1. UNCHANGED <<jobs, archive, goals, waits, targets>>
      BY <1>2, <2>2
    <3>2. jobs' \in JobTable /\ archive' \in ArchiveTable /\ goals' \in GoalTable
      BY <3>1 DEF TypeOK, JobTable, ArchiveTable, GoalTable
    <3>3. RoutesValid'
      BY <3>1 DEF RoutesValid, lease_route_valid
    <3>4. Grow
      BY <1>5, <3>1 DEF Grow
    <3>5. WaitStep({})
      BY <3>1, <3>4, WaitsUnchanged
    <3>6. Decides({})
      BY <3>1 DEF Decides
    <3> QED
      BY <3>2, <3>3, <3>5, <3>6 DEF WaitsFollow
  <2> QED
    BY <2>1, <2>2
<1>7. TypeOK'
  BY <1>1, <1>5, <1>6 DEF TypeOK, JobTable, ArchiveTable, GoalTable, WaitsFollow, WaitStep,
                          WaitTable
<1>8. CallInv'
  BY <1>1, <1>3, <1>5 DEF CallInv, TypeOK
<1> QED
  BY <1>6, <1>7, <1>8 DEF Preserves

(* add_goal_candidate.                                                      *)
LEMMA CandidateStep ==
  ASSUME IInv, NEW g \in Goal, NEW j \in Job, add_goal_candidate(g, j)
  PROVE  Preserves
<1> USE DEF IInv
<1>1. /\ candidates' = candidates \cup {<<g, j>>}
      /\ UNCHANGED <<now, facts, jobs, archive, preparations, nextLease, poll, goalLock, call,
                     deleting, renewal>>
      /\ close_goal(g, "SUCCEEDED", j) \/ UNCHANGED <<goals, waits, targets>>
  BY DEF add_goal_candidate
<1>2. goals' \in GoalTable /\ WaitsFollow
  <2>1. CASE close_goal(g, "SUCCEEDED", j)
    BY <1>1, <2>1, CloseGoalStep
  <2>2. CASE UNCHANGED <<goals, waits, targets>>
    BY <1>1, <2>2, QuietStep DEF TypeOK, GoalTable
  <2> QED
    BY <1>1, <2>1, <2>2
<1>3. TypeOK'
  BY <1>1, <1>2 DEF TypeOK, GoalTable, WaitsFollow, WaitStep, WaitTable
<1>4. RoutesValid' /\ CallInv'
  BY <1>1 DEF RoutesValid, CallInv, lease_route_valid
<1> QED
  BY <1>2, <1>3, <1>4 DEF Preserves

(* fail_goal.                                                               *)
LEMMA FailStep ==
  ASSUME IInv, NEW g \in Goal, fail_goal(g)
  PROVE  Preserves
<1> USE DEF IInv
<1>1. /\ UNCHANGED <<now, facts, jobs, archive, candidates, preparations, nextLease,
                     poll, goalLock, call, deleting, renewal>>
      /\ close_goal(g, "FAILED", Null)
  BY DEF fail_goal
<1>2. goals' \in GoalTable /\ WaitsFollow
  BY <1>1, CloseGoalStep
<1>3. TypeOK'
  BY <1>1, <1>2 DEF TypeOK, GoalTable, WaitsFollow, WaitStep, WaitTable
<1>4. RoutesValid' /\ CallInv'
  BY <1>1 DEF RoutesValid, CallInv, lease_route_valid
<1> QED
  BY <1>2, <1>3, <1>4 DEF Preserves

(* The passing of time.                                                     *)
LEMMA TickStep ==
  ASSUME IInv, Tick
  PROVE  Preserves
<1> USE DEF IInv
<1>1. now < MaxTime /\ now' = now + 1 /\ UNCHANGED <<tables, poll, goalLock, call, deleting, renewal>>
  BY DEF Tick
<1>2. TypeOK'
  BY <1>1, TimeAssumption DEF TypeOK, tables
<1>3. RoutesValid' /\ CallInv'
  BY <1>1 DEF RoutesValid, CallInv, lease_route_valid, tables
<1> QED
  BY <1>1, <1>2, <1>3, QuietStep DEF Preserves, tables

(* Every step, one case per action.                                         *)
LEMMA NextPreserves ==
  ASSUME IInv, [Next]_vars
  PROVE  Preserves
<1>1. ASSUME deleting = {}, Prepare PROVE Preserves
  BY <1>1, PrepareStep, ReprepareStep DEF Prepare
<1>2. ASSUME deleting = {}, Submit PROVE Preserves
  <2>1. PICK req \in Submissions, g \in Goal :
          LET p == preparations[req.job]
          IN submit_native_job(req, IF p # Null THEN p.goal ELSE req.goal, g)
    BY <1>2 DEF Submit
  <2> QED
    BY <2>1, SubmitStep
<1>3. ASSUME NEW w \in Worker, Poll(w) PROVE Preserves
  BY <1>3, PollExpireStep, PollSnapshotStep, PollNoneStep, PollLockStep DEF Poll
<1>4. ASSUME Claim PROVE Preserves
  <2>1. PICK w \in Worker, req \in Reschedules : claim_native_task(w, req.job, req.route)
    BY <1>4 DEF Claim
  <2>2. req.job \in Job
    BY InputAssumption DEF RescheduleRequest
  <2> QED
    BY <2>1, <2>2, ClaimStep
<1>5. ASSUME Renew PROVE Preserves
  BY <1>5, RenewStep DEF Renew
<1>6. ASSUME deleting = {}, Complete PROVE Preserves
  <2>1. \A lease \in Lease : lease \in Nat
    BY InputAssumption DEF Lease
  <2>2. PICK j \in Job, outcome \in Completions :
          \/ \E lease \in Lease, w \in Worker : complete_native_job(j, lease, w, outcome)
          \/ complete_native_unheld_job(j, outcome)
    BY <1>6 DEF Complete
  <2>3. CASE \E lease \in Lease, w \in Worker : complete_native_job(j, lease, w, outcome)
    BY <1>6, <2>1, <2>3, CompleteStep DEF complete_native_job
  <2>4. CASE complete_native_unheld_job(j, outcome)
    BY <1>6, <2>4, CompleteStep DEF complete_native_unheld_job
  <2> QED
    BY <2>2, <2>3, <2>4
<1>7. ASSUME deleting = {}, Reschedule PROVE Preserves
  <2>1. \A lease \in Lease : lease \in Nat
    BY InputAssumption DEF Lease
  <2>2. PICK req \in Reschedules :
          \/ \E lease \in Lease, w \in Worker : reschedule_native_job(req, lease, w)
          \/ reschedule_native_job(req, 0, Null)
    BY <1>7 DEF Reschedule
  <2>3. CASE \E lease \in Lease, w \in Worker : reschedule_native_job(req, lease, w)
    BY <1>7, <2>1, <2>3, RescheduleStep
  <2>4. CASE reschedule_native_job(req, 0, Null)
    BY <1>7, <2>4, RescheduleStep
  <2> QED
    BY <2>2, <2>3, <2>4
<1>8. ASSUME Cancel PROVE Preserves
  BY <1>8, CancelStep, InputAssumption DEF Cancel
<1>9. ASSUME ClearCrashConcern PROVE Preserves
  BY <1>9, ClearStep DEF ClearCrashConcern
<1>10. ASSUME EndCall PROVE Preserves
  BY <1>10, CompleteLockedStep, RescheduleLockedStep, RollBackStep DEF EndCall
<1>11. ASSUME Goals PROVE Preserves
  <2>1. CASE \E c \in CandidateRequests : add_goal_candidate(c[1], c[2])
    <3>1. PICK c \in CandidateRequests : add_goal_candidate(c[1], c[2])
      BY <2>1
    <3>2. c[1] \in Goal /\ c[2] \in Job
      BY InputAssumption
    <3> QED
      BY <3>1, <3>2, CandidateStep
  <2>2. CASE \E g \in FailRequests : fail_goal(g)
    BY <2>2, FailStep, InputAssumption
  <2> QED
    BY <1>11, <2>1, <2>2 DEF Goals
<1>12. ASSUME Delete PROVE Preserves
  BY <1>12, DeleteStep DEF Delete
<1>13. ASSUME UNCHANGED vars PROVE Preserves
  <2>1. UNCHANGED <<now, facts, jobs, archive, goals, candidates, preparations, waits, targets,
                    nextLease, poll, goalLock, call, deleting, renewal>>
    BY <1>13 DEF vars, tables
  <2>2. TypeOK'
    BY <2>1 DEF TypeOK, IInv
  <2>3. RoutesValid' /\ CallInv'
    BY <2>1 DEF RoutesValid, CallInv, lease_route_valid, IInv
  <2> QED
    BY <2>1, <2>2, <2>3, QuietStep DEF Preserves
<1> QED
  BY <1>1, <1>2, <1>3, <1>4, <1>5, <1>6, <1>7, <1>8, <1>9, <1>10, <1>11, <1>12, <1>13,
     TickStep, DeleteOneStep, CommitStep DEF Next

(* The empty tables satisfy the invariant.                                  *)
LEMMA InitInv == Init => IInv
<1> SUFFICES ASSUME Init PROVE IInv
  OBVIOUS
<1>1. TypeOK
  <2>1. IdlePoll \in PollState
    BY TimeAssumption DEF IdlePoll, PollState
  <2> QED
    BY <2>1, TimeAssumption DEF Init, TypeOK
<1>2. RoutesValid /\ KnownInv /\ CallInv
  BY DEF Init, RoutesValid, KnownInv, KnownRow, CallInv
<1>3. TargetsExact
  <2>1. \A t \in TargetRow : ~pending_target(waits, t)
    BY DEF Init, TargetRow, pending_target
  <2> QED
    BY <2>1 DEF Init, TargetsExact
<1> QED
  BY <1>1, <1>2, <1>3 DEF IInv

(* Every step preserves the invariant.                                      *)
LEMMA NextInv == IInv /\ [Next]_vars => IInv'
  BY NextPreserves DEF Preserves, WaitsFollow, WaitStep, IInv

(* The inductive invariant holds in every reachable state.                  *)
THEOREM Invariance == Spec => []IInv
  BY InitInv, NextInv, PTL DEF Spec

-----------------------------------------------------------------------------
(* Theorems *)

(* Every table of the scheduler keeps its type through every interleaving   *)
(* of polls, leases, calls, deletions and goal operations.                  *)
THEOREM TypeCorrect == Spec => []TypeOK
<1>1. IInv => TypeOK
  BY DEF IInv
<1> QED
  BY <1>1, Invariance, PTL

(* The CHECK constraints on a job's route and lease route never make a      *)
(* poll, claim or reschedule fail; a leased row carries the leased route.   *)
THEOREM RoutesLegal == Spec => []RoutesValid
<1>1. IInv => RoutesValid
  BY DEF IInv
<1> QED
  BY <1>1, Invariance, PTL

(* dependency_targets is exactly the set of pending dependencies.           *)
THEOREM TargetsAreExact == Spec => []TargetsExact
<1>1. IInv => TargetsExact
  BY DEF IInv
<1> QED
  BY <1>1, Invariance, PTL

(* A pending dependency that was undecided stays pending only if it still   *)
(* is undecided: the step evaluated it again, or did not decide its target. *)
LEMMA WakeupStep ==
  ASSUME IInv, NoLostWakeup, Preserves
  PROVE  NoLostWakeup'
<1>1. PICK S \in SUBSET Target : WaitStep(S) /\ Decides(S)
  BY DEF Preserves, WaitsFollow
<1> SUFFICES ASSUME NEW j \in Job, NEW i \in WaitId,
                    waits'[j][i] # Null, waits'[j][i].state = "PENDING",
                    NEW k \in DOMAIN waits'[j][i].deps, waits'[j][i].deps[k].state = "PENDING"
             PROVE  LET t == waits'[j][i].descriptor[k].target IN
                    IF t.kind = "job" THEN facts'[t.id] # Null /\ archive'[t.id] = Null
                    ELSE goals'[t.id] # Null /\ goals'[t.id].state = "OPEN"
  BY DEF NoLostWakeup, goal_open
<1> DEFINE t == waits'[j][i].descriptor[k].target
<1>2. waits'[j][i] \in WaitRow
  BY <1>1 DEF WaitStep, WaitTable
<1>3. k \in DOMAIN waits'[j][i].descriptor /\ t \in Target
  BY <1>2, WaitRowParts, DescriptorType DEF Dependency
<1>4. IF t.kind = "job" THEN facts'[t.id] # Null ELSE goals'[t.id] # Null
  BY <1>1, <1>3 DEF WaitStep, KnownInv, KnownRow
<1>5. CASE Undecided(t, goals', archive')
  BY <1>4, <1>5 DEF Undecided
<1>6. CASE waits'[j][i] = waits[j][i] /\ t \notin S
  <2>1. IF t.kind = "job" THEN archive[t.id] = Null
        ELSE goals[t.id] # Null /\ goals[t.id].state = "OPEN"
    BY <1>6 DEF NoLostWakeup, goal_open
  <2>2. CASE t.kind = "job"
    <3>1. t.id \in Job /\ t = JobTarget(t.id)
      BY <1>3, <2>2 DEF Target, JobTarget
    <3> QED
      BY <1>1, <1>4, <1>6, <2>1, <2>2, <3>1 DEF Decides
  <2>3. CASE t.kind # "job"
    <3>1. t.id \in Goal /\ t = GoalTarget(t.id)
      BY <1>3, <2>3 DEF Target, GoalTarget
    <3> QED
      BY <1>1, <1>4, <1>6, <2>1, <2>3, <3>1 DEF Decides
  <2> QED
    BY <2>2, <2>3
<1>7. Undecided(t, goals', archive') \/ (waits'[j][i] = waits[j][i] /\ t \notin S)
  BY <1>1 DEF WaitStep, Fresh
<1> QED
  BY <1>5, <1>6, <1>7

(* No interleaving loses a wake-up: a dependency stored as pending is on a  *)
(* submitted job that is not archived or on an open goal, whoever archived  *)
(* or closed what at the moment the wait was registered.                    *)
THEOREM WakeupsAreNotLost == Spec => []NoLostWakeup
<1>1. Init => NoLostWakeup
  BY DEF Init, NoLostWakeup
<1>2. IInv /\ NoLostWakeup /\ [Next]_vars => NoLostWakeup'
  BY NextPreserves, WakeupStep
<1> QED
  BY <1>1, <1>2, Invariance, PTL DEF Spec

-----------------------------------------------------------------------------
(* Kinds of steps *)

(* No poll has read a clock that is ahead, and a call is either a           *)
(* completion or a rescheduling, under a worker's lease or under none.      *)
ControlInv ==
  /\ \A w \in Worker : poll[w].v_now <= now
  /\ call # Null =>
       /\ call.req = Null \/ call.outcome = Null
       /\ call.lease # 0 => call.worker # Null

(* The waits are left alone, or the overdue ones are closed.                *)
WaitsRest == UNCHANGED <<waits, targets>> \/ expire_goal_waits

(* Clock, polls, and calls that are let through or rolled back.             *)
Rests ==
  /\ UNCHANGED <<facts, jobs, archive, goals, candidates, preparations, nextLease>>
  /\ now' \in {now, now + 1}
  /\ WaitsRest

(* Renewing a lease, clearing a crash concern.                              *)
Touches(j, row) ==
  /\ jobs[j] # Null
  /\ jobs' = [jobs EXCEPT ![j] = row]
  /\ KeepsWaiting(row, jobs[j]) /\ KeepsHolder(row, jobs[j])
  /\ \/ row.lease_expires_at = jobs[j].lease_expires_at
     \/ jobs[j].lease_expires_at > now /\ row.lease_expires_at = now + LeaseSeconds
  /\ UNCHANGED <<now, facts, archive, goals, candidates, preparations, nextLease, waits, targets>>

(* Polling and claiming.                                                    *)
Leases(j, row) ==
  /\ jobs[j] # Null /\ jobs[j].lease_expires_at <= now
  /\ jobs' = [jobs EXCEPT ![j] = row]
  /\ KeepsWaiting(row, jobs[j])
  /\ row.lease_id = nextLease /\ row.lease_worker_id # Null
  /\ nextLease' = nextLease + 1
  /\ WaitsRest
  /\ UNCHANGED <<now, facts, archive, goals, candidates, preparations>>

(* Completing, cancelling, and deleting a job that is active.               *)
Ends(j, outcome) ==
  /\ jobs[j] # Null
  /\ archive_job(j, outcome)
  /\ facts' = facts \/ (facts[j] # Null /\ facts' = [facts EXCEPT ![j].hidden = TRUE])
  /\ UNCHANGED <<now, candidates, preparations, nextLease>>

Outcomes == Completions \cup {"cancelled"}

(* Deleting a job that is over.                                             *)
Hides(j) ==
  /\ facts[j] # Null /\ jobs[j] = Null
  /\ facts' = [facts EXCEPT ![j].hidden = TRUE]
  /\ UNCHANGED <<now, jobs, archive, goals, candidates, preparations, nextLease, waits, targets>>

(* Submitting: the job gets identity, row and goal.                         *)
NewGoal == [state |-> "OPEN", successful_job_id |-> Null]

Submits(j, req, g) ==
  /\ j = req.job /\ facts[j] = Null
  /\ \/ req.share /\ goals[g] # Null /\ goals[g].state = "OPEN" /\ goals' = goals
     \/ ~req.share /\ goals[g] = Null /\ goals' = [goals EXCEPT ![g] = NewGoal]
  /\ facts'[j] # Null /\ facts'[j].goal = g /\ facts'[j].deps = req.deps /\ ~facts'[j].hidden
  /\ \A k \in Job \ {j} : facts'[k] = facts[k]
  /\ jobs' = [jobs EXCEPT ![j] = submitted_row(req, normalize_wait_for(req.wait_for), now)]
  /\ preparations[j] = Null => preparations' = preparations
  /\ preparations[j] # Null =>
       /\ g = preparations[j].goal /\ req.deps = preparations[j].deps
       /\ preparations' = [preparations EXCEPT ![j].published = TRUE]
  /\ IF req.deps = <<>> THEN UNCHANGED <<waits, targets>>
     ELSE /\ targets_exist(j, req.deps)
          /\ store_wait(j, "submission", req.deps, Infinity)
          /\ ~goal_cycle(JobTarget(j))'
  /\ req.share => ~goal_cycle(GoalTarget(g))'
  /\ UNCHANGED <<now, archive, candidates, nextLease>>

(* Rescheduling.                                                            *)
Moves(c) == jobs[c.job] # Null /\ reschedule_locked_job(c)

(* The goal operations.                                                     *)
Joins == \E g \in Goal, j \in Job : add_goal_candidate(g, j)
Fails == \E g \in Goal : fail_goal(g)

Kinds ==
  \/ Rests
  \/ \E j \in Job : \E row \in JobRow : Touches(j, row) \/ Leases(j, row)
  \/ \E j \in Job : Hides(j) \/ \E outcome \in Outcomes : Ends(j, outcome)
  \/ Prepare \/ Joins \/ Fails
  \/ \E req \in Submissions, j \in Job, g \in Goal : Submits(j, req, g)
  \/ \E c \in {call} \ {Null} : call' = Null /\ Moves(c)

(* get_native_work, the lease.                                              *)
LEMMA PollLockKind ==
  ASSUME IInv, ControlInv, NEW w \in Worker, NEW j \in Job, poll_lock(w, j)
  PROVE  Kinds
<1> DEFINE row == poll_lease(jobs[j], poll[w].v_now, nextLease, w, LeaseSeconds)
<1>1. /\ jobs[j] # Null /\ jobs[j].lease_expires_at <= poll[w].v_now
      /\ jobs' = [jobs EXCEPT ![j] = row]
      /\ nextLease' = nextLease + 1
      /\ UNCHANGED <<now, facts, archive, goals, candidates, preparations, waits, targets>>
  BY DEF poll_lock, pollable
<1>2. /\ jobs[j] \in JobRow /\ poll[w].v_now \in Nat /\ now \in Nat
      /\ nextLease \in Nat \ {0} /\ LeaseSeconds \in Nat
  BY <1>1, InputAssumption, TimeAssumption DEF IInv, TypeOK, PollState
<1>3. row \in JobRow
  BY <1>2, PollLeaseType
<1>4. KeepsWaiting(row, jobs[j]) /\ row.lease_id = nextLease /\ row.lease_worker_id = w
  BY <1>2, PollLeaseFields
<1>5. jobs[j].lease_expires_at <= now
  <2>1. jobs[j].lease_expires_at \in Nat /\ poll[w].v_now <= now
    BY <1>2, JobRowParts DEF ControlInv
  <2> QED
    BY <1>1, <1>2, <2>1
<1> HIDE DEF row
<1>6. Leases(j, row)
  BY <1>1, <1>4, <1>5, RouteAssumption DEF Leases, WaitsRest
<1> QED
  BY <1>3, <1>6 DEF Kinds

(* claim_native_task: a job that is READY has no valid lease.               *)
LEMMA ClaimKind ==
  ASSUME IInv, NEW w \in Worker, NEW j \in Job, NEW route, claim_native_task(w, j, route)
  PROVE  Kinds
<1> DEFINE row == claim_lease(jobs[j], now, nextLease, w, LeaseSeconds)
<1>1. /\ jobs[j] # Null
      /\ expire_goal_waits
      /\ job_status_at(jobs[j], waits'[j], now) = "READY"
      /\ jobs[j].route.work_kind = "TASK"
      /\ jobs' = [jobs EXCEPT ![j] = row]
      /\ nextLease' = nextLease + 1
      /\ UNCHANGED <<now, facts, archive, goals, candidates, preparations>>
  BY DEF claim_native_task
<1>2. /\ jobs[j] \in JobRow /\ RowRoutes(jobs[j]) /\ now \in Nat
      /\ nextLease \in Nat \ {0} /\ LeaseSeconds \in Nat
  BY <1>1, InputAssumption, TimeAssumption, RoutesOfRows DEF IInv, TypeOK
<1>3. jobs[j].route.coordinates # Null
  BY <1>1, <1>2 DEF RowRoutes, native_route_valid
<1>4. row \in JobRow
  BY <1>2, <1>3, ClaimLeaseType
<1>5. KeepsWaiting(row, jobs[j]) /\ row.lease_id = nextLease /\ row.lease_worker_id = w
  BY <1>2, ClaimLeaseFields
<1>6. jobs[j].lease_expires_at <= now
  <2>1. ~ (jobs[j].lease_expires_at > now)
    BY <1>1, Zenon DEF job_status_at
  <2> QED
    BY <1>2, <2>1, JobRowParts
<1> HIDE DEF row
<1>7. Leases(j, row)
  BY <1>1, <1>5, <1>6, RouteAssumption DEF Leases, WaitsRest
<1> QED
  BY <1>4, <1>7 DEF Kinds

(* renew_native_lease and clear_crash_concern.                              *)
LEMMA TouchKind ==
  ASSUME IInv, NEW j \in Job, NEW lease, NEW w,
         renew_native_lease(j, lease, w) \/ clear_crash_concern(j)
  PROVE  Kinds
<1> DEFINE t == now + LeaseSeconds
           renewed == [jobs[j] EXCEPT !.lease_expires_at = t]
           cleared == [jobs[j] EXCEPT !.consecutive_expirations = 0]
<1>1. /\ jobs[j] # Null
      /\ UNCHANGED <<now, facts, archive, goals, candidates, preparations, nextLease, waits,
                     targets>>
      /\ \/ jobs' = [jobs EXCEPT ![j] = renewed] /\ jobs[j].lease_expires_at > now
         \/ jobs' = [jobs EXCEPT ![j] = cleared]
  BY DEF renew_native_lease, clear_crash_concern, extend_lease, extend_allowed
<1>2. jobs[j] \in JobRow /\ t \in Nat
  BY <1>1, InputAssumption, TimeAssumption DEF IInv, TypeOK
<1>3. /\ renewed \in JobRow /\ KeepsWaiting(renewed, jobs[j]) /\ KeepsHolder(renewed, jobs[j])
      /\ renewed.lease_expires_at = t
  BY <1>2, RenewedRowType, RenewedRowFields
<1>4. /\ cleared \in JobRow /\ KeepsWaiting(cleared, jobs[j]) /\ KeepsHolder(cleared, jobs[j])
      /\ cleared.lease_expires_at = jobs[j].lease_expires_at
  BY <1>2, ClearedRowType, ClearedRowFields
<1> HIDE DEF renewed, cleared
<1>5. \E row \in JobRow : Touches(j, row)
  BY <1>1, <1>3, <1>4 DEF Touches
<1> QED
  BY <1>5 DEF Kinds

(* The second step of a completion, a cancellation, the deletion of a job.  *)
LEMMA EndKind ==
  ASSUME IInv,
         \/ \E c \in {call} \ {Null} : complete_native_locked_job(c)
         \/ \E j \in Cancellable : cancel_native_job(j)
         \/ \E j \in deleting : delete_one_job(j)
  PROVE  Kinds
<1>1. ASSUME NEW c \in {call} \ {Null}, complete_native_locked_job(c) PROVE Kinds
  <2>1. c \in Call /\ jobs[c.job] # Null
    BY <1>1 DEF IInv, TypeOK, CallInv
  <2>2. c.job \in Job /\ c.outcome \in Outcomes
    BY <1>1, <2>1 DEF Call, Outcomes, complete_native_locked_job
  <2>3. Ends(c.job, c.outcome)
    BY <1>1, <2>1 DEF Ends, complete_native_locked_job
  <2> QED
    BY <2>2, <2>3 DEF Kinds
<1>2. ASSUME NEW j \in Cancellable, cancel_native_job(j) PROVE Kinds
  <2>1. j \in Job /\ "cancelled" \in Outcomes
    BY InputAssumption DEF Outcomes
  <2>2. Ends(j, "cancelled")
    BY <1>2 DEF Ends, cancel_native_job, cancel_job
  <2> QED
    BY <2>1, <2>2 DEF Kinds
<1>3. ASSUME NEW j \in deleting, delete_one_job(j) PROVE Kinds
  <2>1. j \in Job /\ facts[j] # Null /\ "cancelled" \in Outcomes
    BY DEF IInv, TypeOK, CallInv, Outcomes
  <2>2. CASE jobs[j] # Null
    <3>1. Ends(j, "cancelled")
      BY <1>3, <2>1, <2>2 DEF Ends, delete_one_job, deletion_outcome
    <3> QED
      BY <2>1, <3>1 DEF Kinds
  <2>3. CASE jobs[j] = Null
    <3>1. Hides(j)
      BY <1>3, <2>1, <2>3 DEF Hides, delete_one_job
    <3> QED
      BY <2>1, <3>1 DEF Kinds
  <2> QED
    BY <2>2, <2>3
<1> QED
  BY <1>1, <1>2, <1>3

(* submit_native_job.                                                       *)
LEMMA SubmitKind ==
  ASSUME IInv, Submit
  PROVE  Kinds
<1>1. PICK req \in Submissions, g \in Goal :
        LET p == preparations[req.job]
        IN submit_native_job(req, IF p # Null THEN p.goal ELSE req.goal, g)
  BY DEF Submit
<1> DEFINE j == req.job
           p == preparations[j]
           fact == [goal |-> g, deps |-> req.deps, parent |-> req.parent,
                    job_type |-> req.job_type, expires_at |-> req.expires_at, hidden |-> FALSE]
<1>2. req \in SubmitRequest
  BY InputAssumption
<1>3. j \in Job /\ fact \in Fact /\ req.share \in BOOLEAN
  BY <1>2 DEF SubmitRequest, Fact
<1>4. /\ facts[j] = Null
      /\ p # Null => p.goal = (IF p # Null THEN p.goal ELSE req.goal) /\ p.deps = req.deps
      /\ p # Null => (p.goal # Null => g = p.goal)
      /\ IF req.share THEN goal_open(g) ELSE goals[g] = Null
      /\ goals' = IF req.share THEN goals ELSE [goals EXCEPT ![g] = NewGoal]
      /\ facts' = [facts EXCEPT ![j] = fact]
      /\ jobs' = [jobs EXCEPT ![j] = submitted_row(req, normalize_wait_for(req.wait_for), now)]
      /\ preparations' = IF p = Null THEN preparations
                         ELSE [preparations EXCEPT ![j] = [p EXCEPT !.published = TRUE]]
      /\ UNCHANGED <<now, archive, candidates, nextLease>>
  BY <1>1 DEF submit_native_job, first_submission, as_prepared, goal_granted, NewGoal
<1>5. /\ IF req.deps = <<>> THEN UNCHANGED <<waits, targets>>
         ELSE /\ targets_exist(j, req.deps)
              /\ store_wait(j, "submission", req.deps, Infinity)
              /\ ~goal_cycle(JobTarget(j))'
      /\ req.share => ~goal_cycle(GoalTarget(g))'
  BY <1>1 DEF submit_native_job
<1>6. p # Null => p.goal # Null
  <2> SUFFICES ASSUME p # Null PROVE p.goal \in Goal
    BY NullAssumption
  <2>1. p \in Preparation
    BY <1>3 DEF IInv, TypeOK
  <2> QED
    BY <2>1 DEF Preparation
<1>7. fact.goal = g /\ fact.deps = req.deps /\ fact.hidden = FALSE
  OBVIOUS
<1>8. fact # Null
  BY <1>3, FactAssumption
<1> HIDE DEF fact
<1>9. facts'[j] = fact /\ \A k \in Job \ {j} : facts'[k] = facts[k]
  BY <1>3, <1>4 DEF IInv, TypeOK
<1>10. Submits(j, req, g)
  BY <1>3, <1>4, <1>5, <1>6, <1>7, <1>8, <1>9 DEF Submits, goal_open
<1> QED
  BY <1>3, <1>10 DEF Kinds

(* Every step is of one of the kinds.                                       *)
LEMMA StepKinds ==
  ASSUME IInv, ControlInv, [Next]_vars
  PROVE  Kinds
<1>1. ASSUME NEW w \in Worker, Poll(w) PROVE Kinds
  <2>1. CASE \E j \in Job : poll_lock(w, j)
    BY <2>1, PollLockKind
  <2>2. CASE poll_expire(w) \/ poll_snapshot(w) \/ poll_none(w)
    BY <2>2 DEF poll_expire, poll_snapshot, poll_none, tables, Kinds, Rests, WaitsRest
  <2> QED
    BY <1>1, <2>1, <2>2 DEF Poll
<1>2. ASSUME Claim PROVE Kinds
  <2>1. PICK w \in Worker, req \in Reschedules : claim_native_task(w, req.job, req.route)
    BY <1>2 DEF Claim
  <2>2. req.job \in Job
    BY InputAssumption DEF RescheduleRequest
  <2> QED
    BY <2>1, <2>2, ClaimKind
<1>3. ASSUME Renew \/ ClearCrashConcern PROVE Kinds
  BY <1>3, TouchKind DEF Renew, ClearCrashConcern
<1>4. ASSUME NEW c, lock_job_for_status(c) PROVE Kinds
  BY <1>4 DEF lock_job_for_status, tables, Kinds, Rests, WaitsRest
<1>5. ASSUME Complete \/ Reschedule PROVE Kinds
  BY <1>4, <1>5 DEF Complete, complete_native_job, complete_native_unheld_job,
                    Reschedule, reschedule_native_job
<1>6. ASSUME EndCall PROVE Kinds
  <2>1. CASE roll_back_call
    BY <2>1 DEF roll_back_call, tables, Kinds, Rests, WaitsRest
  <2>2. ASSUME NEW c \in {call} \ {Null}, reschedule_locked_job(c) PROVE Kinds
    BY <2>2 DEF reschedule_locked_job, Kinds, Moves, IInv, CallInv
  <2> QED
    BY <1>6, <2>1, <2>2, EndKind DEF EndCall
<1>7. ASSUME Goals PROVE Kinds
  <2>1. CASE \E c \in CandidateRequests : add_goal_candidate(c[1], c[2])
    <3>1. PICK c \in CandidateRequests : add_goal_candidate(c[1], c[2])
      BY <2>1
    <3>2. c[1] \in Goal /\ c[2] \in Job
      BY InputAssumption
    <3> QED
      BY <3>1, <3>2 DEF Joins, Kinds
  <2>2. CASE \E g \in FailRequests : fail_goal(g)
    BY <2>2, InputAssumption DEF Fails, Kinds
  <2> QED
    BY <1>7, <2>1, <2>2 DEF Goals
<1>8. ASSUME Delete \/ Tick \/ (\E j \in Job : commit_renewal(j)) \/ UNCHANGED vars PROVE Kinds
  BY <1>8 DEF Delete, delete_native_jobs, Tick, commit_renewal, vars, tables, Kinds, Rests,
              WaitsRest
<1>9. ASSUME Prepare \/ Submit PROVE Kinds
  BY <1>9, SubmitKind DEF Kinds
<1>10. ASSUME Cancel \/ \E j \in deleting : delete_one_job(j) PROVE Kinds
  BY <1>10, EndKind DEF Cancel
<1> QED
  BY <1>1, <1>2, <1>3, <1>5, <1>6, <1>7, <1>8, <1>9, <1>10 DEF Next

(* Only polls change the state of a poll.                                   *)
LEMMA PollKept ==
  ASSUME [Next]_vars, \A w \in Worker : ~Poll(w)
  PROVE  poll' = poll
<1>1. ASSUME Tick \/ Prepare \/ Submit \/ (\E j \in Job : commit_renewal(j)) \/ UNCHANGED vars
      PROVE  poll' = poll
  BY <1>1 DEF Tick, Prepare, prepare_job, reprepare_job, Submit, submit_native_job,
              commit_renewal, vars
<1>2. ASSUME Claim \/ Renew \/ ClearCrashConcern PROVE poll' = poll
  BY <1>2 DEF Claim, claim_native_task, Renew, renew_native_lease, ClearCrashConcern,
              clear_crash_concern
<1>3. ASSUME Complete \/ Reschedule PROVE poll' = poll
  BY <1>3 DEF Complete, complete_native_job, complete_native_unheld_job, Reschedule,
              reschedule_native_job, lock_job_for_status
<1>4. ASSUME EndCall \/ Cancel PROVE poll' = poll
  BY <1>4 DEF EndCall, complete_native_locked_job, reschedule_locked_job, roll_back_call,
              Cancel, cancel_native_job
<1>5. ASSUME Goals \/ Delete \/ \E j \in deleting : delete_one_job(j) PROVE poll' = poll
  BY <1>5 DEF Goals, add_goal_candidate, fail_goal, Delete, delete_native_jobs, delete_one_job
<1> QED
  BY <1>1, <1>2, <1>3, <1>4, <1>5 DEF Next

(* The clock runs forwards.                                                 *)
LEMMA ClockRuns ==
  ASSUME IInv, ControlInv, [Next]_vars
  PROVE  now \in Nat /\ now' \in Nat /\ now' \in {now, now + 1} /\ now <= now'
<1>1. now' \in {now, now + 1}
  BY StepKinds DEF Kinds, Rests, Touches, Leases, Hides, Ends, Prepare, prepare_job,
     reprepare_job, Submits, Joins, add_goal_candidate, Fails, fail_goal,
     Moves, reschedule_locked_job
<1> QED
  BY <1>1, TimeAssumption DEF IInv, TypeOK

(* The control part of every step: only polls read the clock, and every     *)
(* call is let through as one of the two.                                   *)
LEMMA ControlStep ==
  ASSUME IInv, ControlInv, [Next]_vars
  PROVE  ControlInv'
<1> USE DEF IInv
<1>1. now \in Nat /\ now' \in Nat /\ now <= now'
  BY ClockRuns
<1>2. \A w \in Worker : poll'[w].v_now <= now'
  <2>1. CASE poll' = poll
    <3>1. \A w \in Worker : poll[w].v_now \in Nat /\ poll[w].v_now <= now
      BY TimeAssumption DEF TypeOK, PollState, ControlInv
    <3> QED
      BY <1>1, <2>1, <3>1
  <2>2. ASSUME NEW w \in Worker, Poll(w) PROVE \A v \in Worker : poll'[v].v_now <= now'
    <3>1. \A v \in Worker : poll[v].v_now \in Nat /\ poll[v].v_now <= now
      BY TimeAssumption DEF TypeOK, PollState, ControlInv
    <3>2. poll'[w].v_now \in {0, now, poll[w].v_now}
          /\ \A v \in Worker \ {w} : poll'[v] = poll[v]
      <4>1. CASE poll_expire(w)
        BY <4>1 DEF poll_expire, TypeOK
      <4>2. CASE poll_snapshot(w)
        <5> DEFINE F == {j \in Job : pollable(read_row(j), w) /\ status(j) = "READY"}
        <5>1. poll' = [poll EXCEPT ![w].phase = "snapshot", ![w].found = F]
          BY <4>2 DEF poll_snapshot
        <5> HIDE DEF F
        <5> QED
          BY <5>1 DEF TypeOK, PollState
      <4>3. CASE poll_none(w) \/ \E j \in Job : poll_lock(w, j)
        BY <4>3 DEF poll_none, poll_lock, release_poll, IdlePoll, TypeOK
      <4> QED
        BY <2>2, <4>1, <4>2, <4>3 DEF Poll
    <3> QED
      BY <1>1, <3>1, <3>2
  <2> QED
    BY <2>1, <2>2, PollKept DEF Next
<1> DEFINE Good(c) == c # Null => /\ c.req = Null \/ c.outcome = Null
                                  /\ c.lease # 0 => c.worker # Null
<1>3. Good(call')
  <2>1. CASE call' = call \/ call' = Null
    BY <2>1 DEF ControlInv
  <2>2. ASSUME Complete PROVE Good(call')
    BY <2>2, RouteAssumption
    DEF Complete, complete_native_job, complete_native_unheld_job, lock_job_for_status
  <2>3. ASSUME Reschedule PROVE Good(call')
    BY <2>3, RouteAssumption DEF Reschedule, reschedule_native_job, lock_job_for_status
  <2> HIDE DEF Good
  <2> QED
    BY <2>1, <2>2, <2>3 DEF Next, vars, Tick, Prepare, prepare_job, reprepare_job, Submit,
       submit_native_job, Claim, claim_native_task, Renew, renew_native_lease,
       ClearCrashConcern, clear_crash_concern, Poll, poll_expire, poll_snapshot, poll_none,
       poll_lock, EndCall, complete_native_locked_job, reschedule_locked_job, roll_back_call,
       Cancel, cancel_native_job, Goals, add_goal_candidate, fail_goal, Delete,
       delete_native_jobs, delete_one_job, commit_renewal
<1> QED
  BY <1>2, <1>3 DEF ControlInv

(* The control invariant holds in every reachable state.                    *)
LEMMA Control == Spec => [](IInv /\ ControlInv)
<1>1. Init => ControlInv
  BY DEF Init, ControlInv, IdlePoll
<1>2. IInv /\ ControlInv /\ [Next]_vars => ControlInv'
  BY ControlStep
<1> QED
  BY <1>1, <1>2, Invariance, PTL DEF Spec

-----------------------------------------------------------------------------
(* What the kinds of steps do, row by row *)

(* Identities are never lost or rebound.                                    *)
FactsKept ==
  \A k \in Job : facts[k] # Null =>
    /\ facts'[k] # Null
    /\ facts'[k].goal = facts[k].goal /\ facts'[k].deps = facts[k].deps

(* Hiding a job changes nothing else about it.                              *)
LEMMA HiddenEffect ==
  ASSUME TypeOK, NEW j \in Job, facts[j] # Null, facts' = [facts EXCEPT ![j].hidden = TRUE]
  PROVE  /\ FactsKept
         /\ \A k \in Job : facts'[k] # Null => facts[k] # Null
         /\ \A k \in Job \ {j} : facts'[k] = facts[k]
         /\ facts'[j] = [facts[j] EXCEPT !.hidden = TRUE]
<1> DEFINE fact == [facts[j] EXCEPT !.hidden = TRUE]
<1>1. facts[j] \in Fact
  BY DEF TypeOK
<1>2. fact \in Fact /\ fact.goal = facts[j].goal /\ fact.deps = facts[j].deps
  BY <1>1 DEF Fact
<1> HIDE DEF fact
<1>3. facts' = [facts EXCEPT ![j] = fact]
  BY DEF fact
<1>4. facts'[j] = fact /\ \A k \in Job \ {j} : facts'[k] = facts[k]
  BY <1>3 DEF TypeOK
<1> QED
  BY <1>2, <1>4, FactAssumption DEF FactsKept, fact

(* The row of a goal that job j has won.                                    *)
Won(j) == [state |-> "SUCCEEDED", successful_job_id |-> j]

(* Such a row is not Null and says so.                                      *)
LEMMA WonRow ==
  ASSUME NEW j \in Job
  PROVE  Won(j) # Null /\ Won(j).state = "SUCCEEDED" /\ Won(j).successful_job_id = j
<1>1. Won(j) \in GoalRow
  BY DEF Won, GoalRow
<1> QED
  BY <1>1, RowAssumption DEF Won

(* The tables after a job has ended.                                        *)
LEMMA EndsEffect ==
  ASSUME IInv, NEW j \in Job, NEW outcome \in Outcomes, Ends(j, outcome)
  PROVE  /\ archive'[j] # Null /\ archive'[j].status = outcome
         /\ \A k \in Job \ {j} : archive'[k] = archive[k]
         /\ jobs'[j] = Null
         /\ \A k \in Job \ {j} :
              jobs'[k] = IF jobs[k] = Null THEN Null ELSE forget_completed(jobs[k], j, now)
         /\ \A k \in Job \ {j} : jobs[k] # Null => jobs'[k] # Null
         /\ \A g \in Goal :
              goals'[g] = IF g \in won_goals(j, outcome) THEN Won(j) ELSE goals[g]
         /\ settle(terminal_targets(j, won_goals(j, outcome)), pending_waits(j))
         /\ FactsKept /\ \A k \in Job : facts'[k] # Null => facts[k] # Null
         /\ \A k \in Job \ {j} : facts'[k] = facts[k]
         /\ facts'[j] = facts[j] \/ facts'[j] = [facts[j] EXCEPT !.hidden = TRUE]
         /\ UNCHANGED <<now, candidates, preparations, nextLease>>
<1>1. TypeOK
  BY DEF IInv
<1>2. /\ archive' = [archive EXCEPT ![j] = [status |-> outcome]]
      /\ jobs' = [k \in Job |-> IF k = j \/ jobs[k] = Null THEN Null
                                ELSE forget_completed(jobs[k], j, now)]
      /\ goals' = [g \in Goal |-> IF g \in won_goals(j, outcome) THEN Won(j) ELSE goals[g]]
      /\ settle(terminal_targets(j, won_goals(j, outcome)), pending_waits(j))
  BY DEF Ends, archive_job, archive_and_delete_job, update_waiters_for_completion, Won
<1>3. [status |-> outcome] \in ArchiveRow
  BY InputAssumption DEF Outcomes, ArchiveRow
<1>4. archive'[j].status = outcome /\ \A k \in Job \ {j} : archive'[k] = archive[k]
  BY <1>1, <1>2 DEF TypeOK
<1>5. /\ jobs'[j] = Null
      /\ \A k \in Job \ {j} :
           jobs'[k] = IF jobs[k] = Null THEN Null ELSE forget_completed(jobs[k], j, now)
  BY <1>2
<1>6. ASSUME NEW k \in Job \ {j}, jobs[k] # Null PROVE jobs'[k] # Null
  <2>1. jobs[k] \in JobRow /\ now \in Nat
    BY <1>1, <1>6, TimeAssumption DEF TypeOK
  <2>2. forget_completed(jobs[k], j, now) \in JobRow
    BY <2>1, ForgetCompletedType
  <2> QED
    BY <1>5, <1>6, <2>2, JobRowAssumption
<1>7. /\ FactsKept /\ \A k \in Job : facts'[k] # Null => facts[k] # Null
      /\ \A k \in Job \ {j} : facts'[k] = facts[k]
      /\ facts'[j] = facts[j] \/ facts'[j] = [facts[j] EXCEPT !.hidden = TRUE]
  <2>1. CASE facts' = facts
    BY <2>1 DEF FactsKept
  <2>2. CASE facts[j] # Null /\ facts' = [facts EXCEPT ![j].hidden = TRUE]
    BY <1>1, <2>2, HiddenEffect
  <2> QED
    BY <2>1, <2>2 DEF Ends
<1>8. UNCHANGED <<now, candidates, preparations, nextLease>>
  BY DEF Ends
<1>9. \A g \in Goal :
        goals'[g] = IF g \in won_goals(j, outcome) THEN Won(j) ELSE goals[g]
  BY <1>2
<1>10. archive'[j] # Null
  BY <1>1, <1>2, <1>3, RowAssumption DEF TypeOK
<1> QED
  BY <1>2, <1>4, <1>5, <1>6, <1>7, <1>8, <1>9, <1>10

(* One row of jobs is replaced by another one.                              *)
LEMMA RowReplaced ==
  ASSUME TypeOK, NEW j \in Job, NEW row \in JobRow, jobs' = [jobs EXCEPT ![j] = row]
  PROVE  jobs'[j] = row /\ row # Null /\ \A k \in Job \ {j} : jobs'[k] = jobs[k]
  BY JobRowAssumption DEF TypeOK

(* The row of a submitted job.                                              *)
LEMMA SubmitsEffect ==
  ASSUME IInv, NEW req \in Submissions, NEW j \in Job, NEW g \in Goal, Submits(j, req, g)
  PROVE  /\ jobs'[j] # Null
         /\ jobs'[j].dependency_wait_id = IF req.deps = <<>> THEN Null ELSE "submission"
         /\ jobs'[j].wait_for = normalize_wait_for(req.wait_for)
         /\ jobs'[j].wait_until_is_deadline = FALSE
         /\ jobs'[j].lease_id = 0 /\ jobs'[j].lease_worker_id = Null
         /\ jobs'[j].lease_expires_at = 0
         /\ \A k \in Job \ {j} : jobs'[k] = jobs[k]
         /\ FactsKept
<1> DEFINE row == submitted_row(req, normalize_wait_for(req.wait_for), now)
<1>1. req \in SubmitRequest
  BY InputAssumption
<1>2. /\ req.available_at \in Time \cup {Null} /\ req.expires_at \in Time
      /\ req.job_type \in JobType /\ normalize_wait_for(req.wait_for) \in SUBSET Job
      /\ now \in Nat /\ "submission" \in WaitId
  BY <1>1, TimeAssumption, InputAssumption DEF SubmitRequest, normalize_wait_for, IInv, TypeOK
<1>3. row \in JobRow
  BY <1>2, SubmittedRowType
<1>4. /\ row.dependency_wait_id = IF req.deps = <<>> THEN Null ELSE "submission"
      /\ row.wait_for = normalize_wait_for(req.wait_for) /\ row.wait_until_is_deadline = FALSE
      /\ row.lease_id = 0 /\ row.lease_worker_id = Null /\ row.lease_expires_at = 0
  BY DEF submitted_row
<1>5. jobs' = [jobs EXCEPT ![j] = row]
  BY DEF Submits
<1> HIDE DEF row
<1>6. jobs'[j] = row /\ row # Null /\ \A k \in Job \ {j} : jobs'[k] = jobs[k]
  BY <1>3, <1>5, RowReplaced DEF IInv
<1>7. FactsKept
  BY DEF FactsKept, Submits
<1> QED
  BY <1>4, <1>6, <1>7

(* The row of a rescheduled job.                                            *)
LEMMA MovesEffect ==
  ASSUME IInv, NEW c \in {call} \ {Null}, Moves(c)
  PROVE  LET j == c.job
             req == c.req
         IN /\ j \in Job /\ req \in RescheduleRequest
            /\ jobs[j] # Null /\ jobs'[j] # Null
            /\ jobs'[j].dependency_wait_id = IF req.wait = Null THEN Null ELSE req.wait.id
            /\ jobs'[j].wait_for = normalize_wait_for(req.wait_for)
            /\ jobs'[j].wait_until_is_deadline => jobs'[j].wait_for # {}
            /\ jobs'[j].lease_id = 0 /\ jobs'[j].lease_worker_id = Null
            /\ jobs'[j].lease_expires_at = 0
            /\ \A k \in Job \ {j} : jobs'[k] = jobs[k]
            /\ UNCHANGED <<now, facts, archive, goals, candidates, preparations, nextLease>>
<1> DEFINE j == c.job
           req == c.req
           waiting == normalize_wait_for(req.wait_for)
           row == rescheduled_row(jobs[j], req, waiting, now)
<1>1. /\ req # Null /\ jobs[j] # Null
      /\ jobs' = [jobs EXCEPT ![j] = row]
      /\ UNCHANGED <<now, facts, archive, goals, candidates, preparations, nextLease>>
  BY DEF Moves, reschedule_locked_job
<1>2. c \in Call
  BY DEF IInv, TypeOK
<1>3. j \in Job /\ req \in RescheduleRequest
  BY <1>1, <1>2, InputAssumption DEF Call
<1>4. jobs[j] \in JobRow /\ now \in Nat
  BY <1>1, <1>3, TimeAssumption DEF IInv, TypeOK
<1> HIDE DEF j, req
<1>5. /\ req.wait # Null => req.wait.id \in WaitId
      /\ req.available_at \in Time \cup {Null} /\ req.is_deadline \in BOOLEAN
      /\ req.route \in Route
      /\ req.alternate # Null =>
           /\ req.alternate.job_type \in JobType
           /\ req.alternate.task_type \in TaskType \cup {Null}
           /\ req.alternate.after_seconds \in Nat
      /\ waiting \in SUBSET Job
  BY <1>3 DEF RescheduleRequest, normalize_wait_for
<1> HIDE DEF waiting
<1>6. row \in JobRow
  BY <1>4, <1>5, RescheduledRowType
<1>7. /\ row.dependency_wait_id = IF req.wait = Null THEN Null ELSE req.wait.id
      /\ row.wait_for = waiting
      /\ row.wait_until_is_deadline => waiting # {}
      /\ row.lease_id = 0 /\ row.lease_worker_id = Null /\ row.lease_expires_at = 0
  BY <1>4, RescheduledRowFields
<1> HIDE DEF row
<1>8. jobs'[j] = row /\ row # Null /\ \A k \in Job \ {j} : jobs'[k] = jobs[k]
  BY <1>1, <1>3, <1>6, RowReplaced DEF IInv
<1> QED
  BY <1>1, <1>3, <1>7, <1>8 DEF j, req, waiting

(* Preparing writes job_preparations only.                                   *)
LEMMA PrepareEffect ==
  ASSUME Prepare
  PROVE  UNCHANGED <<now, facts, jobs, archive, goals, candidates, nextLease, waits, targets>>
  BY DEF Prepare, prepare_job, reprepare_job

(* The goal operations write goals, candidates and waits only.              *)
LEMMA GoalEffect ==
  ASSUME Joins \/ Fails
  PROVE  UNCHANGED <<now, facts, jobs, archive, preparations, nextLease>>
  BY DEF Joins, Fails, add_goal_candidate, fail_goal

(* Clock, polls, calls, leases, renewals: what the rows say about waiting,  *)
(* and every other table, is left alone.                                    *)
Quiet ==
  /\ UNCHANGED <<facts, archive, goals, candidates, preparations>>
  /\ \A k \in Job :
       \/ jobs'[k] = jobs[k]
       \/ jobs[k] # Null /\ jobs'[k] # Null /\ KeepsWaiting(jobs'[k], jobs[k])
  /\ WaitsRest
  /\ now' \in {now, now + 1}

(* The kinds that differ in what they do to facts, goals and waits.         *)
LEMMA KindCases ==
  ASSUME IInv, ControlInv, [Next]_vars
  PROVE  \/ Quiet \/ Prepare \/ Joins \/ Fails
         \/ \E j \in Job : Hides(j)
         \/ \E j \in Job, outcome \in Outcomes : Ends(j, outcome)
         \/ \E req \in Submissions, j \in Job, g \in Goal : Submits(j, req, g)
         \/ \E c \in {call} \ {Null} : call' = Null /\ Moves(c)
<1>1. CASE Rests
  BY <1>1 DEF Rests, Quiet
<1>2. ASSUME NEW j \in Job, NEW row \in JobRow, Touches(j, row) \/ Leases(j, row) PROVE Quiet
  <2>1. jobs'[j] = row /\ row # Null /\ \A k \in Job \ {j} : jobs'[k] = jobs[k]
    BY <1>2, RowReplaced DEF IInv, Touches, Leases
  <2>2. jobs[j] # Null /\ KeepsWaiting(row, jobs[j])
    BY <1>2 DEF Touches, Leases
  <2>3. /\ UNCHANGED <<facts, archive, goals, candidates, preparations>>
        /\ WaitsRest /\ now' = now
    BY <1>2 DEF Touches, Leases, WaitsRest
  <2> QED
    BY <2>1, <2>2, <2>3 DEF Quiet
<1> QED
  BY <1>1, <1>2, StepKinds DEF Kinds

-----------------------------------------------------------------------------
(* Where a job is *)

(* Every kind of step leaves each submitted job one row.                    *)
LEMMA OneHomeStep ==
  ASSUME IInv, ControlInv, OneHome, [Next]_vars
  PROVE  OneHome'
<1>1. CASE Quiet
  BY <1>1 DEF Quiet, OneHome
<1>2. CASE Prepare
  BY <1>2, PrepareEffect DEF OneHome
<1>3. CASE Joins \/ Fails
  BY <1>3, GoalEffect DEF OneHome
<1>4. ASSUME NEW j \in Job, Hides(j) PROVE OneHome'
  <2>1. /\ \A k \in Job : facts'[k] # Null <=> facts[k] # Null
        /\ UNCHANGED <<jobs, archive>>
    BY <1>4, HiddenEffect DEF Hides, IInv, FactsKept
  <2> QED
    BY <2>1 DEF OneHome
<1>5. ASSUME NEW j \in Job, NEW outcome \in Outcomes, Ends(j, outcome) PROVE OneHome'
  <2>1. /\ archive'[j] # Null /\ jobs'[j] = Null /\ jobs[j] # Null
        /\ \A k \in Job \ {j} : archive'[k] = archive[k]
        /\ \A k \in Job \ {j} : jobs'[k] # Null <=> jobs[k] # Null
        /\ \A k \in Job : facts'[k] # Null <=> facts[k] # Null
    BY <1>5, EndsEffect DEF FactsKept, Ends
  <2> QED
    BY <2>1 DEF OneHome
<1>6. ASSUME NEW req \in Submissions, NEW j \in Job, NEW g \in Goal, Submits(j, req, g)
      PROVE  OneHome'
  <2>1. /\ facts[j] = Null /\ facts'[j] # Null /\ archive' = archive
        /\ \A k \in Job \ {j} : facts'[k] = facts[k]
    BY <1>6 DEF Submits
  <2>2. jobs'[j] # Null /\ \A k \in Job \ {j} : jobs'[k] = jobs[k]
    BY <1>6, SubmitsEffect
  <2> QED
    BY <2>1, <2>2 DEF OneHome
<1>7. ASSUME NEW c \in {call} \ {Null}, Moves(c) PROVE OneHome'
  <2>1. /\ \A k \in Job : jobs'[k] # Null <=> jobs[k] # Null
        /\ UNCHANGED <<facts, archive>>
    BY <1>7, MovesEffect
  <2> QED
    BY <2>1 DEF OneHome
<1> QED
  BY <1>1, <1>2, <1>3, <1>4, <1>5, <1>6, <1>7, KindCases

(* A job id is used once: a submitted job has its row in jobs or in         *)
(* jobs_archive, never in both and never in neither.                        *)
THEOREM EveryJobHasOneHome == Spec => []OneHome
<1>1. Init => OneHome
  BY DEF Init, OneHome
<1>2. IInv /\ ControlInv /\ OneHome /\ [Next]_vars => OneHome'
  BY OneHomeStep
<1> QED
  BY <1>1, <1>2, Control, PTL DEF Spec

-----------------------------------------------------------------------------
(* Outcomes are final *)

(* A goal is created open, and closed once.                                 *)
GoalFollows(g) ==
  \/ goals'[g] = goals[g]
  \/ goals[g] = Null /\ goals'[g] = NewGoal
  \/ goal_open(g) /\ goals'[g] # Null /\ goals'[g].state # "OPEN"

(* What the tables other than jobs and dependency_waits never take back.    *)
History ==
  /\ FactsKept
  /\ \A j \in Job : facts[j] # Null =>
       facts'[j] \in {facts[j], [facts[j] EXCEPT !.hidden = TRUE]}
  /\ \A j \in Job : archive[j] # Null => archive'[j] = archive[j]
  /\ \A g \in Goal : GoalFollows(g)
  /\ candidates \subseteq candidates'

(* Closing a goal.                                                          *)
LEMMA ClosedGoal ==
  ASSUME TypeOK, NEW g \in Goal, NEW st \in {"SUCCEEDED", "FAILED"}, NEW j \in Job \cup {Null},
         close_goal(g, st, j)
  PROVE  /\ goals'[g] = [state |-> st, successful_job_id |-> j] /\ goals'[g] # Null
         /\ goals'[g].state = st /\ goals'[g].successful_job_id = j
         /\ \A h \in Goal \ {g} : goals'[h] = goals[h]
<1> DEFINE row == [state |-> st, successful_job_id |-> j]
<1>1. row \in GoalRow /\ row.state = st /\ row.successful_job_id = j
  BY DEF GoalRow
<1>2. goals' = [goals EXCEPT ![g] = row]
  BY DEF close_goal
<1> HIDE DEF row
<1>3. goals'[g] = row /\ \A h \in Goal \ {g} : goals'[h] = goals[h]
  BY <1>2 DEF TypeOK
<1>4. row # Null
  BY <1>1, RowAssumption
<1> QED
  BY <1>1, <1>3, <1>4 DEF row

(* Creating a goal.                                                         *)
LEMMA OpenedGoal ==
  ASSUME TypeOK, NEW g \in Goal, goals' = [goals EXCEPT ![g] = NewGoal]
  PROVE  /\ goals'[g] = NewGoal /\ NewGoal # Null /\ NewGoal.state = "OPEN"
         /\ NewGoal.successful_job_id = Null
         /\ \A h \in Goal \ {g} : goals'[h] = goals[h]
<1>1. NewGoal \in GoalRow /\ NewGoal.state = "OPEN" /\ NewGoal.successful_job_id = Null
  BY DEF GoalRow, NewGoal
<1>2. goals'[g] = NewGoal /\ \A h \in Goal \ {g} : goals'[h] = goals[h]
  BY DEF TypeOK
<1>3. NewGoal # Null
  BY <1>1, RowAssumption
<1> QED
  BY <1>1, <1>2, <1>3

(* add_goal_candidate.                                                      *)
LEMMA JoinsEffect ==
  ASSUME IInv, Joins
  PROVE  \E g \in Goal, j \in Job :
           /\ goal_open(g) /\ facts[j] # Null /\ ~goal_member(g, j)
           /\ candidates' = candidates \cup {<<g, j>>}
           /\ \A h \in Goal \ {g} : goals'[h] = goals[h]
           /\ \/ /\ archive[j] # Null /\ archive[j].status = "success"
                 /\ goals'[g] # Null /\ goals'[g].state = "SUCCEEDED"
                 /\ goals'[g].successful_job_id = j
                 /\ settle({GoalTarget(g)}, {})
              \/ /\ ~(archive[j] # Null /\ archive[j].status = "success")
                 /\ UNCHANGED <<goals, waits, targets>>
           /\ ~goal_cycle(GoalTarget(g))'
<1>1. PICK g \in Goal, j \in Job : add_goal_candidate(g, j)
  BY DEF Joins
<1>2. /\ goal_open(g) /\ facts[j] # Null /\ ~goal_member(g, j)
      /\ candidates' = candidates \cup {<<g, j>>}
      /\ ~goal_cycle(GoalTarget(g))'
  BY <1>1 DEF add_goal_candidate
<1>3. CASE archive[j] # Null /\ archive[j].status = "success"
  <2>1. close_goal(g, "SUCCEEDED", j)
    BY <1>1, <1>3 DEF add_goal_candidate
  <2>2. /\ goals'[g] # Null /\ goals'[g].state = "SUCCEEDED"
        /\ goals'[g].successful_job_id = j
        /\ \A h \in Goal \ {g} : goals'[h] = goals[h]
    BY <2>1, ClosedGoal DEF IInv
  <2>3. settle({GoalTarget(g)}, {})
    BY <2>1 DEF close_goal
  <2> QED
    BY <1>2, <1>3, <2>2, <2>3
<1>4. CASE ~(archive[j] # Null /\ archive[j].status = "success")
  <2>1. UNCHANGED <<goals, waits, targets>>
    BY <1>1, <1>4 DEF add_goal_candidate
  <2> QED
    BY <1>2, <1>4, <2>1
<1> QED
  BY <1>3, <1>4

(* fail_goal.                                                               *)
LEMMA FailsEffect ==
  ASSUME IInv, Fails
  PROVE  \E g \in Goal :
           /\ goal_open(g)
           /\ candidates' = candidates
           /\ \A h \in Goal \ {g} : goals'[h] = goals[h]
           /\ goals'[g] # Null /\ goals'[g].state = "FAILED"
           /\ settle({GoalTarget(g)}, {})
<1>1. PICK g \in Goal : fail_goal(g)
  BY DEF Fails
<1>2. /\ goal_open(g) /\ close_goal(g, "FAILED", Null) /\ candidates' = candidates
  BY <1>1 DEF fail_goal
<1>3. /\ goals'[g] # Null /\ goals'[g].state = "FAILED"
      /\ \A h \in Goal \ {g} : goals'[h] = goals[h]
  BY <1>2, ClosedGoal DEF IInv
<1> QED
  BY <1>2, <1>3 DEF close_goal

(* Every kind of step respects History: nothing recorded is taken back.     *)
LEMMA HistoryStep ==
  ASSUME IInv, ControlInv, OneHome, [Next]_vars
  PROVE  History
<1>1. CASE Quiet
  BY <1>1 DEF Quiet, History, FactsKept, GoalFollows
<1>2. CASE Prepare
  BY <1>2, PrepareEffect DEF History, FactsKept, GoalFollows
<1>3. CASE Joins
  BY <1>3, GoalEffect, JoinsEffect DEF History, FactsKept, GoalFollows
<1>4. CASE Fails
  BY <1>4, GoalEffect, FailsEffect DEF History, FactsKept, GoalFollows
<1>5. ASSUME NEW j \in Job, Hides(j) PROVE History
  <2>1. /\ FactsKept
        /\ \A k \in Job : facts'[k] \in {facts[k], [facts[k] EXCEPT !.hidden = TRUE]}
        /\ UNCHANGED <<archive, goals, candidates>>
    BY <1>5, HiddenEffect DEF Hides, IInv
  <2> QED
    BY <2>1 DEF History, GoalFollows
<1>6. ASSUME NEW j \in Job, NEW outcome \in Outcomes, Ends(j, outcome) PROVE History
  <2>1. /\ FactsKept
        /\ \A k \in Job : facts'[k] \in {facts[k], [facts[k] EXCEPT !.hidden = TRUE]}
        /\ UNCHANGED candidates
        /\ \A k \in Job \ {j} : archive'[k] = archive[k]
    BY <1>6, EndsEffect
  <2>2. archive[j] = Null
    BY <1>6 DEF Ends, OneHome
  <2>3. ASSUME NEW g \in Goal PROVE GoalFollows(g)
    <3>1. \A h \in Goal :
            goals'[h] = IF h \in won_goals(j, outcome) THEN Won(j) ELSE goals[h]
      BY <1>6, EndsEffect
    <3> QED
      BY <3>1, WonRow DEF GoalFollows, won_goals
  <2> QED
    BY <2>1, <2>2, <2>3 DEF History
<1>7. ASSUME NEW req \in Submissions, NEW j \in Job, NEW g \in Goal, Submits(j, req, g)
      PROVE  History
  <2>1. /\ facts[j] = Null /\ UNCHANGED <<archive, candidates>>
        /\ \A k \in Job \ {j} : facts'[k] = facts[k]
        /\ \/ goals' = goals
           \/ goals[g] = Null /\ goals' = [goals EXCEPT ![g] = NewGoal]
    BY <1>7 DEF Submits
  <2>2. \A h \in Goal : GoalFollows(h)
    BY <2>1, OpenedGoal DEF GoalFollows, IInv
  <2> QED
    BY <2>1, <2>2 DEF History, FactsKept
<1>8. ASSUME NEW c \in {call} \ {Null}, Moves(c) PROVE History
  BY <1>8, MovesEffect DEF History, FactsKept, GoalFollows
<1> QED
  BY <1>1, <1>2, <1>3, <1>4, <1>5, <1>6, <1>7, <1>8, KindCases

(* An archived job, a closed goal and a decided wait never change;          *)
(* candidates and identities are never withdrawn or rebound.                *)
THEOREM OutcomesAreFinal == Spec => OutcomesFinal
<1> DEFINE Final ==
      /\ \A j \in Job : archive[j] # Null => archive'[j] = archive[j]
      /\ \A g \in Goal : goals[g] # Null /\ goals[g].state # "OPEN" => goals'[g] = goals[g]
      /\ \A j \in Job, i \in WaitId :
           waits[j][i] # Null =>
             /\ waits'[j][i] # Null
             /\ waits'[j][i].descriptor = waits[j][i].descriptor
             /\ waits'[j][i].deadline = waits[j][i].deadline
             /\ waits[j][i].state # "PENDING" => waits'[j][i] = waits[j][i]
      /\ candidates \subseteq candidates'
      /\ \A j \in Job : facts[j] # Null =>
           facts'[j] \in {facts[j], [facts[j] EXCEPT !.hidden = TRUE]}
<1>1. IInv /\ ControlInv /\ OneHome /\ [Next]_vars => Final
  <2> SUFFICES ASSUME IInv, ControlInv, OneHome, [Next]_vars PROVE Final
    OBVIOUS
  <2>1. History
    BY HistoryStep
  <2>2. Kept
    BY NextPreserves DEF Preserves, WaitsFollow, WaitStep
  <2> QED
    BY <2>1, <2>2 DEF History, GoalFollows, goal_open, Kept
<1>2. IInv /\ ControlInv /\ OneHome /\ [Next]_vars => [Final]_vars
  BY <1>1
<1> HIDE DEF Final
<1>3. Spec => [][Final]_vars
  BY <1>2, Control, EveryJobHasOneHome, PTL DEF Spec
<1> QED
  BY <1>3 DEF OutcomesFinal, Final

-----------------------------------------------------------------------------
(* Goals *)

(* Only goals that exist have members, and only submitted jobs are          *)
(* candidates.                                                              *)
MembersKnown ==
  /\ \A j \in Job : facts[j] # Null => goals[facts[j].goal] # Null
  /\ \A g \in Goal, j \in Job : <<g, j>> \in candidates => goals[g] # Null /\ facts[j] # Null

(* A new job's goal exists, and the new job is a member of nothing else.    *)
LEMMA SubmitsMembers ==
  ASSUME IInv, MembersKnown,
         NEW req \in Submissions, NEW j \in Job, NEW g \in Goal, Submits(j, req, g)
  PROVE  /\ goals'[g] # Null /\ goals'[g].state = "OPEN"
         /\ \A h \in Goal \ {g} : goals'[h] = goals[h]
         /\ goals[g] # Null => goals'[g] = goals[g]
         /\ \A h \in Goal, k \in Job :
              goal_member(h, k)' <=> goal_member(h, k) \/ (h = g /\ k = j)
<1>1. /\ facts[j] = Null /\ facts'[j] # Null /\ facts'[j].goal = g
      /\ \A k \in Job \ {j} : facts'[k] = facts[k]
      /\ candidates' = candidates
      /\ \/ goals[g] # Null /\ goals[g].state = "OPEN" /\ goals' = goals
         \/ goals[g] = Null /\ goals' = [goals EXCEPT ![g] = NewGoal]
  BY DEF Submits
<1>2. /\ goals'[g] # Null /\ goals'[g].state = "OPEN"
      /\ \A h \in Goal \ {g} : goals'[h] = goals[h]
      /\ goals[g] # Null => goals'[g] = goals[g]
  BY <1>1, OpenedGoal DEF IInv
<1>3. \A h \in Goal : <<h, j>> \notin candidates
  BY <1>1 DEF MembersKnown
<1>4. \A h \in Goal, k \in Job :
        goal_member(h, k)' <=> goal_member(h, k) \/ (h = g /\ k = j)
  BY <1>1, <1>3 DEF goal_member
<1> QED
  BY <1>2, <1>4

(* Membership changes in three ways only: it is kept, a job is submitted,   *)
(* a candidate joins.                                                       *)
LEMMA MembersKept ==
  ASSUME UNCHANGED candidates, FactsKept, \A k \in Job : facts'[k] # Null => facts[k] # Null
  PROVE  \A h \in Goal, k \in Job : goal_member(h, k)' <=> goal_member(h, k)
  BY DEF goal_member, FactsKept

(* Every kind of step keeps the goals of members and candidates known.      *)
LEMMA MembersKnownStep ==
  ASSUME IInv, ControlInv, OneHome, MembersKnown, [Next]_vars
  PROVE  MembersKnown'
<1>1. History
  BY HistoryStep
<1>2. \A g \in Goal : goals[g] # Null => goals'[g] # Null
  BY <1>1 DEF History, GoalFollows
<1>3. \A j \in Job : facts[j] # Null => facts[j].goal \in Goal
  BY DEF IInv, TypeOK, Fact
<1>4. ASSUME UNCHANGED candidates, \A k \in Job : facts'[k] # Null => facts[k] # Null
      PROVE  MembersKnown'
  BY <1>1, <1>2, <1>3, <1>4 DEF MembersKnown, History, FactsKept
<1>5. CASE Quiet \/ Prepare \/ Fails \/ \E c \in {call} \ {Null} : Moves(c)
  <2>1. UNCHANGED <<facts, candidates>>
    BY <1>5, PrepareEffect, GoalEffect, FailsEffect, MovesEffect DEF Quiet
  <2> QED
    BY <1>4, <2>1
<1>6. CASE Joins
  <2>1. PICK g \in Goal, j \in Job :
          goal_open(g) /\ facts[j] # Null /\ candidates' = candidates \cup {<<g, j>>}
    BY <1>6, JoinsEffect
  <2>2. facts' = facts
    BY <1>6, GoalEffect
  <2> QED
    BY <1>2, <1>3, <2>1, <2>2 DEF MembersKnown, goal_open
<1>7. ASSUME NEW j \in Job, Hides(j) PROVE MembersKnown'
  <2>1. \A k \in Job : facts'[k] # Null => facts[k] # Null
    BY <1>7, HiddenEffect DEF Hides, IInv
  <2> QED
    BY <1>4, <1>7, <2>1 DEF Hides
<1>8. ASSUME NEW j \in Job, NEW outcome \in Outcomes, Ends(j, outcome) PROVE MembersKnown'
  BY <1>4, <1>8, EndsEffect
<1>9. ASSUME NEW req \in Submissions, NEW j \in Job, NEW g \in Goal, Submits(j, req, g)
      PROVE  MembersKnown'
  <2>1. /\ facts'[j] # Null /\ facts'[j].goal = g /\ candidates' = candidates
        /\ \A k \in Job \ {j} : facts'[k] = facts[k]
    BY <1>9 DEF Submits
  <2>2. goals'[g] # Null
    BY <1>9, SubmitsMembers
  <2> QED
    BY <1>1, <1>2, <1>3, <2>1, <2>2 DEF MembersKnown, History, FactsKept
<1> QED
  BY <1>5, <1>6, <1>7, <1>8, <1>9, KindCases

(* The goals that jobs and candidates name always exist.                    *)
LEMMA KnownMembers == Spec => [](OneHome /\ MembersKnown)
<1>1. Init => MembersKnown
  BY DEF Init, MembersKnown
<1>2. IInv /\ ControlInv /\ OneHome /\ MembersKnown /\ [Next]_vars => MembersKnown'
  BY MembersKnownStep
<1> QED
  BY <1>1, <1>2, Control, EveryJobHasOneHome, PTL DEF Spec

(* The outcome of one goal is justified.                                    *)
OutcomeOf(g) ==
  /\ goal_open(g) => \A j \in Job : goal_member(g, j) /\ archive[j] # Null =>
                                   archive[j].status # "success"
  /\ goals[g] # Null /\ goals[g].state = "SUCCEEDED" =>
       \E j \in Job : /\ goals[g].successful_job_id = j
                      /\ goal_member(g, j)
                      /\ archive[j] # Null /\ archive[j].status = "success"

(* A goal that has succeeded keeps its winner.                              *)
LEMMA WinnerKept ==
  ASSUME History, NEW g \in Goal, OutcomeOf(g), goals'[g] = goals[g], ~goal_open(g)'
  PROVE  OutcomeOf(g)'
<1>1. ASSUME goals[g] # Null, goals[g].state = "SUCCEEDED"
      PROVE  \E j \in Job : /\ goals'[g].successful_job_id = j
                            /\ goal_member(g, j)'
                            /\ archive'[j] # Null /\ archive'[j].status = "success"
  <2>1. PICK j \in Job : /\ goals[g].successful_job_id = j
                         /\ goal_member(g, j)
                         /\ archive[j] # Null /\ archive[j].status = "success"
    BY <1>1 DEF OutcomeOf
  <2>2. goal_member(g, j)'
    BY <2>1 DEF goal_member, History, FactsKept
  <2>3. archive'[j] = archive[j]
    BY <2>1 DEF History
  <2> QED
    BY <2>1, <2>2, <2>3
<1> QED
  BY <1>1 DEF OutcomeOf

(* A step that archives nothing and adds no member.                         *)
LEMMA GoalsRest ==
  ASSUME History, GoalOutcomeJustified, archive' = archive,
         \A h \in Goal, k \in Job : goal_member(h, k)' <=> goal_member(h, k),
         \A h \in Goal : goals'[h] = goals[h] \/ (goals'[h] # Null /\ goals'[h].state = "FAILED")
  PROVE  GoalOutcomeJustified'
<1>1. ASSUME NEW g \in Goal PROVE OutcomeOf(g)'
  <2>1. OutcomeOf(g)
    BY DEF GoalOutcomeJustified, OutcomeOf
  <2>2. CASE goals'[g] # Null /\ goals'[g].state = "FAILED"
    BY <2>2 DEF OutcomeOf, goal_open
  <2>3. CASE goals'[g] = goals[g] /\ goal_open(g)'
    BY <2>1, <2>3 DEF OutcomeOf, goal_open
  <2>4. CASE goals'[g] = goals[g] /\ ~goal_open(g)'
    BY <2>1, <2>4, WinnerKept
  <2> QED
    BY <2>2, <2>3, <2>4
<1> QED
  BY <1>1 DEF GoalOutcomeJustified, OutcomeOf

(* Every kind of step keeps the outcomes of goals justified.                *)
LEMMA GoalOutcomeStep ==
  ASSUME IInv, ControlInv, OneHome, MembersKnown, GoalOutcomeJustified, [Next]_vars
  PROVE  GoalOutcomeJustified'
<1>1. History
  BY HistoryStep
<1>2. \A g \in Goal : OutcomeOf(g)
  BY DEF GoalOutcomeJustified, OutcomeOf
<1>3. CASE Quiet \/ Prepare \/ Fails \/ \E c \in {call} \ {Null} : Moves(c)
  <2>1. UNCHANGED <<facts, archive, candidates>>
    BY <1>3, PrepareEffect, GoalEffect, FailsEffect, MovesEffect DEF Quiet
  <2>2. \A h \in Goal, k \in Job : goal_member(h, k)' <=> goal_member(h, k)
    BY <2>1 DEF goal_member
  <2>3. \A h \in Goal : goals'[h] = goals[h] \/ (goals'[h] # Null /\ goals'[h].state = "FAILED")
    BY <1>3, PrepareEffect, FailsEffect, MovesEffect DEF Quiet
  <2> QED
    BY <1>1, <2>1, <2>2, <2>3, GoalsRest
<1>4. ASSUME NEW j \in Job, Hides(j) PROVE GoalOutcomeJustified'
  <2>1. /\ FactsKept /\ \A k \in Job : facts'[k] # Null => facts[k] # Null
        /\ UNCHANGED <<archive, candidates, goals>>
    BY <1>4, HiddenEffect DEF Hides, IInv
  <2>2. \A h \in Goal, k \in Job : goal_member(h, k)' <=> goal_member(h, k)
    BY <2>1, MembersKept
  <2> QED
    BY <1>1, <2>1, <2>2, GoalsRest
<1>5. CASE Joins
  <2>1. PICK g \in Goal, j \in Job :
          /\ goal_open(g) /\ candidates' = candidates \cup {<<g, j>>}
          /\ \A h \in Goal \ {g} : goals'[h] = goals[h]
          /\ \/ /\ archive[j] # Null /\ archive[j].status = "success"
                /\ goals'[g] # Null /\ goals'[g].state = "SUCCEEDED"
                /\ goals'[g].successful_job_id = j
             \/ /\ ~(archive[j] # Null /\ archive[j].status = "success")
                /\ UNCHANGED goals
    BY <1>5, JoinsEffect
  <2>2. UNCHANGED <<facts, archive>>
    BY <1>5, GoalEffect
  <2>3. \A h \in Goal, k \in Job :
          goal_member(h, k)' <=> goal_member(h, k) \/ (h = g /\ k = j)
    BY <2>1, <2>2 DEF goal_member
  <2>4. ASSUME NEW h \in Goal \ {g} PROVE OutcomeOf(h)'
    BY <1>2, <2>1, <2>2, <2>3 DEF OutcomeOf, goal_open
  <2>5. OutcomeOf(g)'
    BY <1>2, <2>1, <2>2, <2>3 DEF OutcomeOf, goal_open
  <2> QED
    BY <2>4, <2>5 DEF GoalOutcomeJustified, OutcomeOf
<1>6. ASSUME NEW j \in Job, NEW outcome \in Outcomes, Ends(j, outcome)
      PROVE  GoalOutcomeJustified'
  <2>1. /\ archive'[j] # Null /\ archive'[j].status = outcome
        /\ \A k \in Job \ {j} : archive'[k] = archive[k]
        /\ \A h \in Goal :
             goals'[h] = IF h \in won_goals(j, outcome) THEN Won(j) ELSE goals[h]
    BY <1>6, EndsEffect
  <2>2. \A h \in Goal, k \in Job : goal_member(h, k)' <=> goal_member(h, k)
    BY <1>6, EndsEffect, MembersKept
  <2>3. ASSUME NEW g \in Goal, g \in won_goals(j, outcome) PROVE OutcomeOf(g)'
    BY <2>1, <2>2, <2>3, WonRow DEF OutcomeOf, goal_open, won_goals
  <2>4. ASSUME NEW g \in Goal, g \notin won_goals(j, outcome) PROVE OutcomeOf(g)'
    <3>1. goals'[g] = goals[g]
      BY <2>1, <2>4
    <3>2. CASE ~goal_open(g)'
      BY <1>1, <1>2, <3>1, <3>2, WinnerKept
    <3>3. CASE goal_open(g)'
      <4>1. goal_open(g) /\ goals'[g].state # "SUCCEEDED"
        BY <3>1, <3>3 DEF goal_open
      <4>2. outcome = "success" => ~goal_member(g, j)
        BY <2>4, <4>1 DEF won_goals
      <4> QED
        BY <1>2, <2>1, <2>2, <3>3, <4>1, <4>2 DEF OutcomeOf
    <3> QED
      BY <3>2, <3>3
  <2> QED
    BY <2>3, <2>4 DEF GoalOutcomeJustified, OutcomeOf
<1>7. ASSUME NEW req \in Submissions, NEW j \in Job, NEW g \in Goal, Submits(j, req, g)
      PROVE  GoalOutcomeJustified'
  <2>1. /\ goals'[g] # Null /\ goals'[g].state = "OPEN"
        /\ \A h \in Goal \ {g} : goals'[h] = goals[h]
        /\ goals[g] # Null => goals'[g] = goals[g]
        /\ \A h \in Goal, k \in Job :
             goal_member(h, k)' <=> goal_member(h, k) \/ (h = g /\ k = j)
    BY <1>7, SubmitsMembers
  <2>2. archive' = archive /\ archive[j] = Null
    BY <1>7 DEF Submits, OneHome
  <2>3. goals[g] = Null => \A k \in Job : ~goal_member(g, k)
    BY DEF goal_member, MembersKnown
  <2>4. ASSUME NEW h \in Goal \ {g} PROVE OutcomeOf(h)'
    BY <1>2, <2>1, <2>2 DEF OutcomeOf, goal_open
  <2>5. OutcomeOf(g)'
    BY <1>2, <2>1, <2>2, <2>3 DEF OutcomeOf, goal_open
  <2> QED
    BY <2>4, <2>5 DEF GoalOutcomeJustified, OutcomeOf
<1> QED
  BY <1>3, <1>4, <1>5, <1>6, <1>7, KindCases

(* An open goal has no member that succeeded, a succeeded one names one:    *)
(* completing, adding a candidate that is already over and submitting into  *)
(* a shared goal may meet in any order.                                     *)
THEOREM GoalOutcomesAreJustified == Spec => []GoalOutcomeJustified
<1>1. Init => GoalOutcomeJustified
  BY DEF Init, GoalOutcomeJustified, goal_open
<1>2. IInv /\ ControlInv /\ OneHome /\ MembersKnown /\ GoalOutcomeJustified /\ [Next]_vars
        => GoalOutcomeJustified'
  BY GoalOutcomeStep
<1> QED
  BY <1>1, <1>2, Control, KnownMembers, PTL DEF Spec

-----------------------------------------------------------------------------
(* Rows of jobs *)

(* A hidden job is over, and nobody waits for a job that is over.           *)
LEMMA NothingWaitsStep ==
  ASSUME IInv, ControlInv, OneHome, NothingWaitsForFinished, [Next]_vars
  PROVE  NothingWaitsForFinished'
<1>1. \A j \in Job : jobs[j] # Null => jobs[j] \in JobRow /\ jobs[j].wait_for \subseteq Job
  BY JobRowParts DEF IInv, TypeOK
<1>2. CASE Quiet \/ Prepare \/ Joins \/ Fails
  <2>1. /\ facts' = facts
        /\ \A k \in Job :
             \/ jobs'[k] = jobs[k]
             \/ jobs[k] # Null /\ jobs'[k] # Null /\ KeepsWaiting(jobs'[k], jobs[k])
    BY <1>2, PrepareEffect, GoalEffect DEF Quiet
  <2>2. \A k \in Job : jobs'[k] # Null <=> jobs[k] # Null
    BY <2>1
  <2>3. \A k \in Job : jobs[k] # Null =>
          /\ jobs'[k].wait_for = jobs[k].wait_for
          /\ jobs'[k].wait_until_is_deadline = jobs[k].wait_until_is_deadline
    BY <2>1 DEF KeepsWaiting
  <2> QED
    BY <1>1, <2>1, <2>2, <2>3 DEF NothingWaitsForFinished
<1>3. ASSUME NEW j \in Job, Hides(j) PROVE NothingWaitsForFinished'
  <2>1. /\ \A k \in Job \ {j} : facts'[k] = facts[k]
        /\ jobs' = jobs /\ jobs[j] = Null
    BY <1>3, HiddenEffect DEF Hides, IInv
  <2> QED
    BY <1>1, <2>1 DEF NothingWaitsForFinished
<1>4. ASSUME NEW j \in Job, NEW outcome \in Outcomes, Ends(j, outcome)
      PROVE  NothingWaitsForFinished'
  <2>1. /\ jobs'[j] = Null
        /\ \A k \in Job \ {j} :
             jobs'[k] = IF jobs[k] = Null THEN Null ELSE forget_completed(jobs[k], j, now)
        /\ \A k \in Job \ {j} : jobs[k] # Null => jobs'[k] # Null
        /\ \A k \in Job \ {j} : facts'[k] = facts[k]
    BY <1>4, EndsEffect
  <2>2. ASSUME NEW k \in Job, jobs'[k] # Null
        PROVE  /\ k # j /\ jobs[k] # Null
               /\ jobs'[k].wait_for = jobs[k].wait_for \ {j}
               /\ jobs'[k].wait_until_is_deadline =>
                    /\ jobs[k].wait_until_is_deadline
                    /\ jobs[k].wait_for # {} => jobs'[k].wait_for # {}
    <3>1. k # j /\ jobs[k] # Null /\ jobs'[k] = forget_completed(jobs[k], j, now)
      BY <2>1, <2>2
    <3> QED
      BY <1>1, <3>1, ForgetCompletedFields
  <2> QED
    BY <1>1, <2>1, <2>2 DEF NothingWaitsForFinished
<1>5. ASSUME NEW req \in Submissions, NEW j \in Job, NEW g \in Goal, Submits(j, req, g)
      PROVE  NothingWaitsForFinished'
  <2>1. /\ ~facts'[j].hidden
        /\ \A k \in Job \ {j} : facts'[k] = facts[k]
    BY <1>5 DEF Submits
  <2>2. /\ jobs'[j] # Null
        /\ jobs'[j].wait_for = normalize_wait_for(req.wait_for)
        /\ jobs'[j].wait_until_is_deadline = FALSE
        /\ \A k \in Job \ {j} : jobs'[k] = jobs[k]
    BY <1>5, SubmitsEffect
  <2>3. \A k \in normalize_wait_for(req.wait_for) : jobs[k] # Null
    BY DEF normalize_wait_for
  <2>4. normalize_wait_for(req.wait_for) \subseteq Job
    <3>1. req \in SubmitRequest
      BY InputAssumption
    <3> QED
      BY <3>1 DEF SubmitRequest, normalize_wait_for
  <2> QED
    BY <1>1, <2>1, <2>2, <2>3, <2>4 DEF NothingWaitsForFinished
<1>6. ASSUME NEW c \in {call} \ {Null}, Moves(c) PROVE NothingWaitsForFinished'
  <2> DEFINE j == c.job
             waiting == normalize_wait_for(c.req.wait_for)
  <2>1. /\ j \in Job /\ jobs[j] # Null /\ jobs'[j] # Null
        /\ jobs'[j].wait_for = waiting
        /\ jobs'[j].wait_until_is_deadline => jobs'[j].wait_for # {}
        /\ \A k \in Job \ {j} : jobs'[k] = jobs[k]
        /\ facts' = facts
        /\ c.req \in RescheduleRequest
    BY <1>6, MovesEffect
  <2>2. waiting \subseteq Job /\ \A k \in waiting : jobs[k] # Null
    BY <2>1 DEF RescheduleRequest, normalize_wait_for
  <2> HIDE DEF j, waiting
  <2> QED
    BY <1>1, <2>1, <2>2 DEF NothingWaitsForFinished
<1> QED
  BY <1>2, <1>3, <1>4, <1>5, <1>6, KindCases

(* Deleting hides only jobs that are over, and no wait_for list keeps a job *)
(* that is over: a completion is told to everybody who waits for it,        *)
(* whatever was rescheduled between its two steps.                          *)
THEOREM NobodyWaitsForFinished == Spec => []NothingWaitsForFinished
<1>1. Init => NothingWaitsForFinished
  BY DEF Init, NothingWaitsForFinished
<1>2. IInv /\ ControlInv /\ OneHome /\ NothingWaitsForFinished /\ [Next]_vars
        => NothingWaitsForFinished'
  BY NothingWaitsStep
<1> QED
  BY <1>1, <1>2, Control, EveryJobHasOneHome, PTL DEF Spec

-----------------------------------------------------------------------------
(* Preparations *)

(* What is stored by a preparation of job j.                                *)
Prepared(j, p) ==
  /\ preparations' = [preparations EXCEPT ![j] = p]
  /\ facts[j] = Null /\ ~p.published
  /\ \A k \in Job \ {j} : preparations[k] # Null =>
       /\ ~p.share => p.goal # preparations[k].goal
       /\ p.request # Null => p.request # preparations[k].request

(* A preparation is completed with a request id.                            *)
Reprepared(j, p) ==
  /\ preparations[j] # Null
  /\ preparations' = [preparations EXCEPT ![j] = p]
  /\ p.goal = preparations[j].goal /\ p.share = preparations[j].share
  /\ p.deps = preparations[j].deps /\ p.published = preparations[j].published
  /\ \/ p.request = preparations[j].request
     \/ \A k \in Job \ {j} : preparations[k] # Null => p.request # preparations[k].request

(* prepare_job writes one new preparation, or repeats a bound one.          *)
LEMMA PrepareKinds ==
  ASSUME IInv, Prepare
  PROVE  \E j \in Job, p \in Preparation : Prepared(j, p) \/ Reprepared(j, p)
<1>1. PICK req \in Preparations, j \in Job :
        (\E g \in Goal : prepare_job(req, j, g)) \/ reprepare_job(req, j)
  BY DEF Prepare
<1>2. req \in PrepareRequest
  BY InputAssumption
<1>3. ASSUME NEW g \in Goal, prepare_job(req, j, g)
      PROVE  \E p \in Preparation : Prepared(j, p)
  <2> DEFINE p == [goal |-> g, request |-> req.request, prior |-> req.prior,
                   share |-> req.share, deps |-> req.deps, published |-> FALSE]
  <2>1. p \in Preparation
    BY <1>2 DEF PrepareRequest, Preparation
  <2>2. /\ p.goal = g /\ p.request = req.request /\ p.share = req.share
        /\ p.published = FALSE
    OBVIOUS
  <2>3. /\ preparations' = [preparations EXCEPT ![j] = p]
        /\ facts[j] = Null
        /\ \A k \in Job : preparations[k] # Null =>
             (req.request # Null => preparations[k].request # req.request)
        /\ ~req.share => \A k \in Job : preparations[k] # Null => preparations[k].goal # g
    BY <1>3 DEF prepare_job, unreserved
  <2> HIDE DEF p
  <2>4. Prepared(j, p)
    BY <2>2, <2>3 DEF Prepared
  <2> QED
    BY <2>1, <2>4
<1>4. ASSUME reprepare_job(req, j) PROVE \E p \in Preparation : Reprepared(j, p)
  <2> DEFINE old == preparations[j]
             r == IF req.request # Null THEN req.request ELSE old.request
             p == [old EXCEPT !.request = r]
  <2>1. old # Null /\ old \in Preparation
    BY <1>4 DEF reprepare_job, IInv, TypeOK
  <2>2. r \in Request \cup {Null}
    BY <1>2, <2>1 DEF PrepareRequest, Preparation
  <2>3. \/ r = old.request
        \/ \A k \in Job \ {j} : preparations[k] # Null => r # preparations[k].request
    BY <1>4 DEF reprepare_job, request_taken
  <2>4. preparations' = [preparations EXCEPT ![j] = p]
    BY <1>4 DEF reprepare_job
  <2> HIDE DEF r
  <2>5. /\ p \in Preparation /\ p.goal = old.goal /\ p.share = old.share
        /\ p.deps = old.deps /\ p.published = old.published /\ p.request = r
    BY <2>1, <2>2 DEF Preparation
  <2> HIDE DEF p
  <2>6. Reprepared(j, p)
    BY <2>1, <2>3, <2>4, <2>5 DEF Reprepared
  <2> QED
    BY <2>5, <2>6
<1> QED
  BY <1>1, <1>3, <1>4

(* One preparation agrees with its job and with the other preparations.     *)
BoundTo(j) ==
  preparations[j] # Null =>
    LET p == preparations[j] IN
    /\ p.published <=> facts[j] # Null
    /\ p.published => facts[j].goal = p.goal /\ facts[j].deps = p.deps
    /\ \A k \in Job \ {j} : preparations[k] # Null =>
         /\ ~p.share /\ ~preparations[k].share => p.goal # preparations[k].goal
         /\ p.request # Null => p.request # preparations[k].request

(* A step that leaves the preparations alone and submits nothing.           *)
LEMMA PreparationsRest ==
  ASSUME PreparationBinding, preparations' = preparations, FactsKept,
         \A k \in Job : preparations[k] # Null /\ facts'[k] # Null => facts[k] # Null
  PROVE  PreparationBinding'
<1>1. ASSUME NEW j \in Job PROVE BoundTo(j)'
  <2>1. BoundTo(j)
    BY DEF PreparationBinding, BoundTo
  <2>2. preparations[j] # Null => (facts[j] # Null <=> facts'[j] # Null)
    BY DEF FactsKept
  <2>3. facts[j] # Null => facts'[j].goal = facts[j].goal /\ facts'[j].deps = facts[j].deps
    BY DEF FactsKept
  <2> QED
    BY <2>1, <2>2, <2>3 DEF BoundTo
<1> QED
  BY <1>1 DEF PreparationBinding, BoundTo

(* Every kind of step keeps preparations binding.                           *)
LEMMA PreparationStep ==
  ASSUME IInv, ControlInv, PreparationBinding, [Next]_vars
  PROVE  PreparationBinding'
<1>1. \A k \in Job : BoundTo(k)
  BY DEF PreparationBinding, BoundTo
<1>2. CASE Quiet \/ Joins \/ Fails \/ \E c \in {call} \ {Null} : Moves(c)
  <2>1. UNCHANGED <<facts, preparations>>
    BY <1>2, GoalEffect, MovesEffect DEF Quiet
  <2> QED
    BY <2>1, PreparationsRest DEF FactsKept
<1>3. ASSUME NEW j \in Job, Hides(j) PROVE PreparationBinding'
  <2>1. FactsKept /\ \A k \in Job : facts'[k] # Null => facts[k] # Null
    BY <1>3, HiddenEffect DEF Hides, IInv
  <2>2. preparations' = preparations
    BY <1>3 DEF Hides
  <2> QED
    BY <2>1, <2>2, PreparationsRest
<1>4. ASSUME NEW j \in Job, NEW outcome \in Outcomes, Ends(j, outcome)
      PROVE  PreparationBinding'
  <2>1. /\ FactsKept /\ \A k \in Job : facts'[k] # Null => facts[k] # Null
        /\ preparations' = preparations
    BY <1>4, EndsEffect
  <2> QED
    BY <2>1, PreparationsRest
<1>5. CASE Prepare
  <2>1. PICK j \in Job, p \in Preparation : Prepared(j, p) \/ Reprepared(j, p)
    BY <1>5, PrepareKinds
  <2>2. /\ preparations'[j] = p
        /\ \A k \in Job \ {j} : preparations'[k] = preparations[k]
    <3>1. preparations' = [preparations EXCEPT ![j] = p]
      BY <2>1 DEF Prepared, Reprepared
    <3> QED
      BY <3>1 DEF IInv, TypeOK
  <2>3. facts' = facts
    BY <1>5, PrepareEffect
  <2>4. BoundTo(j)'
    BY <1>1, <2>1, <2>2, <2>3 DEF BoundTo, Prepared, Reprepared
  <2>5. ASSUME NEW k \in Job \ {j} PROVE BoundTo(k)'
    BY <1>1, <2>1, <2>2, <2>3 DEF BoundTo, Prepared, Reprepared
  <2> QED
    BY <2>4, <2>5 DEF PreparationBinding, BoundTo
<1>6. ASSUME NEW req \in Submissions, NEW j \in Job, NEW g \in Goal, Submits(j, req, g)
      PROVE  PreparationBinding'
  <2>1. /\ facts[j] = Null /\ facts'[j] # Null
        /\ facts'[j].goal = g /\ facts'[j].deps = req.deps
        /\ \A k \in Job \ {j} : facts'[k] = facts[k]
    BY <1>6 DEF Submits
  <2>2. CASE preparations[j] = Null
    <3>1. preparations' = preparations
      BY <1>6, <2>2 DEF Submits
    <3> QED
      BY <2>1, <2>2, <3>1, PreparationsRest DEF FactsKept
  <2>3. CASE preparations[j] # Null
    <3> DEFINE old == preparations[j]
               p == [old EXCEPT !.published = TRUE]
    <3>1. old \in Preparation
      BY <2>3 DEF IInv, TypeOK
    <3>2. preparations' = [preparations EXCEPT ![j] = p]
      BY <1>6, <2>3 DEF Submits
    <3>3. /\ p.goal = old.goal /\ p.share = old.share /\ p.deps = old.deps
          /\ p.request = old.request /\ p.published = TRUE
      BY <3>1 DEF Preparation
    <3>4. g = old.goal /\ req.deps = old.deps
      BY <1>6, <2>3 DEF Submits
    <3> HIDE DEF p
    <3>5. preparations'[j] = p /\ \A k \in Job \ {j} : preparations'[k] = preparations[k]
      BY <3>2 DEF IInv, TypeOK
    <3>6. BoundTo(j)'
      BY <1>1, <2>1, <2>3, <3>3, <3>4, <3>5 DEF BoundTo
    <3>7. ASSUME NEW k \in Job \ {j} PROVE BoundTo(k)'
      BY <1>1, <2>1, <2>3, <3>3, <3>5 DEF BoundTo
    <3> QED
      BY <3>6, <3>7 DEF PreparationBinding, BoundTo
  <2> QED
    BY <2>2, <2>3
<1> QED
  BY <1>2, <1>3, <1>4, <1>5, <1>6, KindCases

(* A preparation is published exactly when its job exists, with what it     *)
(* reserved, and no two preparations share a request id or, unless they are *)
(* shared restarts, a goal.                                                 *)
THEOREM PreparationsAreBinding == Spec => []PreparationBinding
<1>1. Init => PreparationBinding
  BY DEF Init, PreparationBinding
<1>2. IInv /\ ControlInv /\ PreparationBinding /\ [Next]_vars => PreparationBinding'
  BY PreparationStep
<1> QED
  BY <1>1, <1>2, Control, PTL DEF Spec

-----------------------------------------------------------------------------
(* Waits, row by row *)

Pending(w) == w # Null /\ w.state = "PENDING"

(* A wait is left alone, cancelled while it is pending, evaluated on the    *)
(* updated tables, or inserted and evaluated at once.                       *)
Cancels(j, i) ==
  Pending(waits[j][i]) /\ waits'[j][i] = close_wait(waits[j][i], "CANCELLED")
Evaluates(j, i) ==
  waits[j][i] # Null /\ waits'[j][i] = evaluate_wait(waits[j][i], now, goals', archive')
Inserts(j, i) ==
  /\ waits[j][i] = Null
  /\ \E deps \in Descriptors, deadline \in Time :
       /\ targets_exist(j, deps)
       /\ waits'[j][i] = evaluate_wait(new_wait(deps, deadline), now, goals', archive')

KeepsRow(j, i) == waits'[j][i] = waits[j][i] \/ Cancels(j, i) \/ Evaluates(j, i)

(* _settle_target and _cancel_waits.                                        *)
LEMMA SettleRows ==
  ASSUME TargetsExact, NEW settled, NEW cancelled, settle(settled, cancelled),
         \A j \in Job, i \in WaitId : <<j, i>> \in cancelled => Pending(waits[j][i])
  PROVE  \A j \in Job, i \in WaitId :
           KeepsRow(j, i) /\ (<<j, i>> \in cancelled => Cancels(j, i))
<1> DEFINE affected == {p \in Job \X WaitId :
                          \E t \in settled :
                            [job |-> p[1], wait |-> p[2], target |-> t] \in targets}
<1>1. waits' = [j \in Job |-> [i \in WaitId |->
                  IF <<j, i>> \in cancelled THEN close_wait(waits[j][i], "CANCELLED")
                  ELSE IF <<j, i>> \in affected
                  THEN evaluate_wait(waits[j][i], now, goals', archive')
                  ELSE waits[j][i]]]
  BY DEF settle
<1>2. ASSUME NEW j \in Job, NEW i \in WaitId, <<j, i>> \in affected PROVE waits[j][i] # Null
  <2>1. PICK t \in settled : [job |-> j, wait |-> i, target |-> t] \in targets
    BY <1>2
  <2>2. pending_target(waits, [job |-> j, wait |-> i, target |-> t])
    BY <2>1 DEF TargetsExact
  <2> QED
    BY <2>2 DEF pending_target
<1> HIDE DEF affected
<1> QED
  BY <1>1, <1>2 DEF KeepsRow, Cancels, Evaluates

(* _expire_goal_waits.                                                      *)
LEMMA ExpireRows ==
  ASSUME WaitsRest, goals' = goals, archive' = archive
  PROVE  \A j \in Job, i \in WaitId : KeepsRow(j, i)
<1>1. CASE UNCHANGED waits
  BY <1>1 DEF KeepsRow
<1>2. CASE expire_goal_waits
  <2>1. waits' = [j \in Job |-> [i \in WaitId |->
                    IF due(j, i) THEN evaluate_wait(waits[j][i], now, goals', archive')
                    ELSE waits[j][i]]]
    BY <1>2 DEF expire_goal_waits
  <2>2. \A j \in Job, i \in WaitId : due(j, i) => waits[j][i] # Null
    BY DEF due
  <2> QED
    BY <2>1, <2>2 DEF KeepsRow, Evaluates
<1> QED
  BY <1>1, <1>2 DEF WaitsRest

(* _register_wait.                                                          *)
LEMMA StoreRows ==
  ASSUME TypeOK, NEW j \in Job, NEW id \in WaitId,
         NEW deps \in Descriptors, NEW deadline \in Time,
         store_wait(j, id, deps, deadline), archive' = archive,
         waits[j][id] = Null => targets_exist(j, deps)
  PROVE  /\ Evaluates(j, id) \/ Inserts(j, id)
         /\ \A i \in WaitId \ {id} :
              IF Pending(waits[j][i]) THEN Cancels(j, i) ELSE waits'[j][i] = waits[j][i]
         /\ \A k \in Job \ {j}, i \in WaitId : waits'[k][i] = waits[k][i]
<1> DEFINE cancelled == {p \in pending_waits(j) : p[2] # id}
           old == waits[j][id]
           first == IF old = Null THEN new_wait(deps, deadline) ELSE old
<1>1. waits' = [waits EXCEPT ![j] = [i \in WaitId |->
                  IF i = id THEN evaluate_wait(first, now, goals', archive)
                  ELSE IF <<j, i>> \in cancelled THEN close_wait(waits[j][i], "CANCELLED")
                  ELSE waits[j][i]]]
  BY DEF store_wait
<1>2. waits \in WaitTable
  BY DEF TypeOK, WaitTable
<1>3. \A i \in WaitId \ {id} : <<j, i>> \in cancelled <=> Pending(waits[j][i])
  BY DEF pending_waits, Pending
<1> HIDE DEF cancelled, first
<1>4. waits'[j][id] = evaluate_wait(first, now, goals', archive')
  BY <1>1, <1>2 DEF WaitTable
<1>5. \A i \in WaitId \ {id} :
        waits'[j][i] = IF <<j, i>> \in cancelled THEN close_wait(waits[j][i], "CANCELLED")
                       ELSE waits[j][i]
  BY <1>1, <1>2 DEF WaitTable
<1>6. \A k \in Job \ {j}, i \in WaitId : waits'[k][i] = waits[k][i]
  BY <1>1, <1>2 DEF WaitTable
<1>7. Evaluates(j, id) \/ Inserts(j, id)
  BY <1>4 DEF first, Evaluates, Inserts
<1> QED
  BY <1>3, <1>5, <1>6, <1>7 DEF Cancels

(* A cancelled wait is pending no more.                                     *)
LEMMA CancelledRow ==
  ASSUME TypeOK, NEW j \in Job, NEW i \in WaitId, Cancels(j, i)
  PROVE  waits'[j][i].state = "CANCELLED" /\ ~Pending(waits'[j][i])
<1>1. waits[j][i] \in WaitRow /\ "CANCELLED" \in WaitState
  BY DEF TypeOK, Cancels, Pending, WaitState
<1>2. waits'[j][i].state = "CANCELLED"
  BY <1>1, CloseWaitType DEF Cancels
<1> QED
  BY <1>2 DEF Pending

(* The waits of a job that a step ends or wakes, and of all the others.     *)
LEMMA EndsRows ==
  ASSUME IInv, NEW j \in Job, NEW outcome \in Outcomes, Ends(j, outcome)
  PROVE  /\ \A k \in Job, i \in WaitId : KeepsRow(k, i)
         /\ \A i \in WaitId : Pending(waits[j][i]) => Cancels(j, i)
<1>1. settle(terminal_targets(j, won_goals(j, outcome)), pending_waits(j))
  BY EndsEffect
<1>2. \A k \in Job, i \in WaitId : <<k, i>> \in pending_waits(j) <=> k = j /\ Pending(waits[k][i])
  BY DEF pending_waits, Pending
<1> QED
  BY <1>1, <1>2, SettleRows DEF IInv

(* The waits of a job that is submitted.                                    *)
LEMMA SubmitsRows ==
  ASSUME IInv, NEW req \in Submissions, NEW j \in Job, NEW g \in Goal, Submits(j, req, g)
  PROVE  IF req.deps = <<>> THEN waits' = waits
         ELSE /\ Evaluates(j, "submission") \/ Inserts(j, "submission")
              /\ \A i \in WaitId \ {"submission"} :
                   IF Pending(waits[j][i]) THEN Cancels(j, i) ELSE waits'[j][i] = waits[j][i]
              /\ \A k \in Job \ {j}, i \in WaitId : waits'[k][i] = waits[k][i]
<1>1. CASE req.deps = <<>>
  BY <1>1 DEF Submits
<1>2. CASE req.deps # <<>>
  <2>1. req.deps \in Descriptors /\ "submission" \in WaitId /\ Infinity \in Time
    BY <1>2, InputAssumption, TimeAssumption DEF SubmitRequest, Infinity, Time
  <2>2. targets_exist(j, req.deps) /\ store_wait(j, "submission", req.deps, Infinity)
        /\ archive' = archive
    BY <1>2 DEF Submits
  <2>3. TypeOK
    BY DEF IInv
  <2> QED
    BY <1>2, <2>1, <2>2, <2>3, StoreRows
<1> QED
  BY <1>1, <1>2

(* The waits of a job that is rescheduled.                                  *)
LEMMA MovesRows ==
  ASSUME IInv, NEW c \in {call} \ {Null}, Moves(c)
  PROVE  LET j == c.job
             wait == c.req.wait
         IN IF wait = Null
            THEN /\ \A k \in Job, i \in WaitId : KeepsRow(k, i)
                 /\ \A i \in WaitId : Pending(waits[j][i]) => Cancels(j, i)
            ELSE /\ Evaluates(j, wait.id) \/ Inserts(j, wait.id)
                 /\ \A i \in WaitId \ {wait.id} :
                      IF Pending(waits[j][i]) THEN Cancels(j, i)
                      ELSE waits'[j][i] = waits[j][i]
                 /\ \A k \in Job \ {j}, i \in WaitId : waits'[k][i] = waits[k][i]
<1> DEFINE j == c.job
           wait == c.req.wait
<1>1. j \in Job /\ c.req \in RescheduleRequest /\ archive' = archive
  BY MovesEffect
<1>2. wait # Null => wait.id \in WaitId /\ wait.deps \in Descriptors /\ wait.deadline \in Time
  BY <1>1 DEF RescheduleRequest
<1>3. IF wait = Null THEN settle({}, pending_waits(j))
      ELSE /\ waits[j][wait.id] = Null => targets_exist(j, wait.deps)
           /\ store_wait(j, wait.id, wait.deps, wait.deadline)
  BY DEF Moves, reschedule_locked_job
<1>4. TypeOK /\ TargetsExact
  BY DEF IInv
<1> HIDE DEF j, wait
<1>5. CASE wait = Null
  <2>1. \A k \in Job, i \in WaitId :
          <<k, i>> \in pending_waits(j) <=> k = j /\ Pending(waits[k][i])
    BY DEF pending_waits, Pending
  <2> QED
    BY <1>1, <1>3, <1>4, <1>5, <2>1, SettleRows DEF j, wait
<1>6. CASE wait # Null
  <2>1. /\ Evaluates(j, wait.id) \/ Inserts(j, wait.id)
        /\ \A i \in WaitId \ {wait.id} :
             IF Pending(waits[j][i]) THEN Cancels(j, i) ELSE waits'[j][i] = waits[j][i]
        /\ \A k \in Job \ {j}, i \in WaitId : waits'[k][i] = waits[k][i]
    BY <1>1, <1>2, <1>3, <1>4, <1>6, StoreRows
  <2> QED
    BY <1>6, <2>1 DEF j, wait
<1> QED
  BY <1>5, <1>6

(* The waits on a goal that is closed.                                      *)
LEMMA GoalRows ==
  ASSUME IInv, Joins \/ Fails
  PROVE  \A k \in Job, i \in WaitId : KeepsRow(k, i)
<1>1. TargetsExact
  BY DEF IInv
<1>2. CASE waits' = waits
  BY <1>2 DEF KeepsRow
<1>3. ASSUME NEW g \in Goal, settle({GoalTarget(g)}, {})
      PROVE  \A k \in Job, i \in WaitId : KeepsRow(k, i)
  <2> DEFINE none == {}
             settled == {GoalTarget(g)}
  <2>1. \A k \in Job, i \in WaitId : <<k, i>> \in none => Pending(waits[k][i])
    OBVIOUS
  <2>2. settle(settled, none)
    BY <1>3
  <2> HIDE DEF none, settled
  <2> QED
    BY <1>1, <2>1, <2>2, SettleRows
<1>4. CASE Joins
  <2>1. PICK g \in Goal : settle({GoalTarget(g)}, {}) \/ waits' = waits
    BY <1>4, JoinsEffect
  <2> QED
    BY <1>2, <1>3, <2>1
<1>5. CASE Fails
  BY <1>3, <1>5, FailsEffect
<1> QED
  BY <1>4, <1>5

(* A wait that was not pending stays what it was.                           *)
LEMMA PendingBefore ==
  ASSUME IInv, [Next]_vars, NEW j \in Job, NEW i \in WaitId,
         Pending(waits'[j][i]), waits[j][i] # Null
  PROVE  Pending(waits[j][i])
<1>1. Kept
  BY NextPreserves DEF Preserves, WaitsFollow, WaitStep
<1> QED
  BY <1>1 DEF Kept, Pending

(* Every kind of step closes the waits its jobs no longer depend on.        *)
LEMMA PendingWaitStep ==
  ASSUME IInv, ControlInv, OneHome, PendingWaitCurrent, [Next]_vars
  PROVE  PendingWaitCurrent'
<1> DEFINE Current(j, i) ==
      Pending(waits[j][i]) => jobs[j] # Null /\ jobs[j].dependency_wait_id = i
<1>1. \A j \in Job, i \in WaitId : Current(j, i)
  BY DEF PendingWaitCurrent, Pending
<1>2. ASSUME NEW j \in Job, NEW i \in WaitId, KeepsRow(j, i),
             jobs[j] # Null =>
               jobs'[j] # Null /\ jobs'[j].dependency_wait_id = jobs[j].dependency_wait_id
      PROVE  Current(j, i)'
  <2> SUFFICES ASSUME Pending(waits'[j][i])
               PROVE  jobs'[j] # Null /\ jobs'[j].dependency_wait_id = i
    BY DEF Pending
  <2>1. waits[j][i] # Null
    BY <1>2 DEF KeepsRow, Cancels, Evaluates, Pending
  <2>2. Pending(waits[j][i])
    BY <2>1, PendingBefore
  <2> QED
    BY <1>1, <1>2, <2>2
<1>3. ASSUME NEW j \in Job, NEW i \in WaitId,
             IF Pending(waits[j][i]) THEN Cancels(j, i) ELSE waits'[j][i] = waits[j][i]
      PROVE  ~Pending(waits'[j][i])
  BY <1>3, CancelledRow DEF IInv
<1>4. CASE Quiet
  <2>1. \A j \in Job, i \in WaitId : KeepsRow(j, i)
    BY <1>4, ExpireRows DEF Quiet
  <2>2. \A j \in Job : jobs[j] # Null =>
          jobs'[j] # Null /\ jobs'[j].dependency_wait_id = jobs[j].dependency_wait_id
    BY <1>4 DEF Quiet, KeepsWaiting
  <2> QED
    BY <1>2, <2>1, <2>2 DEF PendingWaitCurrent, Pending
<1>5. CASE Prepare \/ Joins \/ Fails \/ \E j \in Job : Hides(j)
  <2>1. \A j \in Job, i \in WaitId : KeepsRow(j, i)
    <3>1. CASE Prepare \/ \E j \in Job : Hides(j)
      BY <3>1, PrepareEffect DEF Hides, KeepsRow
    <3>2. CASE Joins \/ Fails
      BY <3>2, GoalRows
    <3> QED
      BY <1>5, <3>1, <3>2
  <2>2. jobs' = jobs
    BY <1>5, PrepareEffect, GoalEffect DEF Hides
  <2> QED
    BY <1>2, <2>1, <2>2 DEF PendingWaitCurrent, Pending
<1>6. ASSUME NEW j \in Job, NEW outcome \in Outcomes, Ends(j, outcome)
      PROVE  PendingWaitCurrent'
  <2>1. /\ \A k \in Job, i \in WaitId : KeepsRow(k, i)
        /\ \A i \in WaitId : Pending(waits[j][i]) => Cancels(j, i)
    BY <1>6, EndsRows
  <2>2. ASSUME NEW k \in Job \ {j}, jobs[k] # Null
        PROVE  jobs'[k] # Null /\ jobs'[k].dependency_wait_id = jobs[k].dependency_wait_id
    <3>1. jobs'[k] = forget_completed(jobs[k], j, now) /\ jobs'[k] # Null
      BY <1>6, <2>2, EndsEffect
    <3>2. jobs[k] \in JobRow
      BY <2>2 DEF IInv, TypeOK
    <3> QED
      BY <3>1, <3>2, ForgetCompletedFields
  <2>3. \A k \in Job \ {j}, i \in WaitId : Current(k, i)'
    BY <1>2, <2>1, <2>2
  <2>4. ASSUME NEW i \in WaitId PROVE ~Pending(waits'[j][i])
    <3>1. CASE Pending(waits[j][i])
      BY <2>1, <3>1, CancelledRow DEF IInv
    <3>2. CASE ~Pending(waits[j][i])
      <4> SUFFICES ASSUME Pending(waits'[j][i]) PROVE FALSE
        OBVIOUS
      <4>1. waits[j][i] # Null
        BY <2>1 DEF KeepsRow, Cancels, Evaluates, Pending
      <4> QED
        BY <3>2, <4>1, PendingBefore
    <3> QED
      BY <3>1, <3>2
  <2> QED
    BY <2>3, <2>4 DEF PendingWaitCurrent, Pending
<1>7. ASSUME NEW req \in Submissions, NEW j \in Job, NEW g \in Goal, Submits(j, req, g)
      PROVE  PendingWaitCurrent'
  <2>1. /\ jobs'[j] # Null
        /\ jobs'[j].dependency_wait_id = IF req.deps = <<>> THEN Null ELSE "submission"
        /\ \A k \in Job \ {j} : jobs'[k] = jobs[k]
    BY <1>7, SubmitsEffect
  <2>2. \A i \in WaitId : ~Pending(waits[j][i])
    BY <1>1, <1>7 DEF Submits, OneHome
  <2>3. CASE req.deps = <<>>
    <3>1. waits' = waits
      BY <1>7, <2>3, SubmitsRows
    <3> QED
      BY <1>1, <2>1, <2>2, <3>1 DEF PendingWaitCurrent, Pending
  <2>4. CASE req.deps # <<>>
    <3>1. /\ \A i \in WaitId \ {"submission"} : waits'[j][i] = waits[j][i]
          /\ \A k \in Job \ {j}, i \in WaitId : waits'[k][i] = waits[k][i]
      BY <1>7, <2>2, <2>4, SubmitsRows
    <3> QED
      BY <1>1, <2>1, <2>2, <2>4, <3>1 DEF PendingWaitCurrent, Pending
  <2> QED
    BY <2>3, <2>4
<1>8. ASSUME NEW c \in {call} \ {Null}, Moves(c) PROVE PendingWaitCurrent'
  <2> DEFINE j == c.job
             wait == c.req.wait
  <2>1. /\ j \in Job /\ jobs'[j] # Null
        /\ jobs'[j].dependency_wait_id = IF wait = Null THEN Null ELSE wait.id
        /\ \A k \in Job \ {j} : jobs'[k] = jobs[k]
    BY <1>8, MovesEffect
  <2>2. IF wait = Null
        THEN /\ \A k \in Job, i \in WaitId : KeepsRow(k, i)
             /\ \A i \in WaitId : Pending(waits[j][i]) => Cancels(j, i)
        ELSE /\ \A i \in WaitId \ {wait.id} :
                  IF Pending(waits[j][i]) THEN Cancels(j, i)
                  ELSE waits'[j][i] = waits[j][i]
             /\ \A k \in Job \ {j}, i \in WaitId : waits'[k][i] = waits[k][i]
    BY <1>8, MovesRows
  <2> HIDE DEF j, wait
  <2>3. CASE wait = Null
    <3>1. \A k \in Job \ {j}, i \in WaitId : Current(k, i)'
      BY <1>2, <2>1, <2>2, <2>3
    <3>2. ASSUME NEW i \in WaitId PROVE ~Pending(waits'[j][i])
      <4>1. CASE Pending(waits[j][i])
        BY <2>1, <2>2, <2>3, <4>1, CancelledRow DEF IInv
      <4>2. CASE ~Pending(waits[j][i])
        <5> SUFFICES ASSUME Pending(waits'[j][i]) PROVE FALSE
          OBVIOUS
        <5>1. waits[j][i] # Null
          BY <2>1, <2>2, <2>3 DEF KeepsRow, Cancels, Evaluates, Pending
        <5> QED
          BY <2>1, <4>2, <5>1, PendingBefore
      <4> QED
        BY <4>1, <4>2
    <3> QED
      BY <2>1, <3>1, <3>2 DEF PendingWaitCurrent, Pending
  <2>4. CASE wait # Null
    <3>1. \A i \in WaitId \ {wait.id} : ~Pending(waits'[j][i])
      BY <1>3, <2>1, <2>2, <2>4
    <3>2. \A k \in Job \ {j}, i \in WaitId : Current(k, i)'
      BY <1>1, <2>1, <2>2, <2>4 DEF Pending
    <3> QED
      BY <2>1, <2>4, <3>1, <3>2 DEF PendingWaitCurrent, Pending
  <2> QED
    BY <2>3, <2>4
<1> QED
  BY <1>4, <1>5, <1>6, <1>7, <1>8, KindCases

(* A pending wait is the one its active job is suspended on, whether the    *)
(* job was rescheduled, completed, cancelled or deleted meanwhile.          *)
THEOREM PendingWaitsAreCurrent == Spec => []PendingWaitCurrent
<1>1. Init => PendingWaitCurrent
  BY DEF Init, PendingWaitCurrent
<1>2. IInv /\ ControlInv /\ OneHome /\ PendingWaitCurrent /\ [Next]_vars => PendingWaitCurrent'
  BY PendingWaitStep
<1> QED
  BY <1>1, <1>2, Control, EveryJobHasOneHome, PTL DEF Spec

(* The row effects, whatever the step.                                      *)
LEMMA RowEffects ==
  ASSUME IInv, ControlInv, [Next]_vars, NEW j \in Job, NEW i \in WaitId
  PROVE  KeepsRow(j, i) \/ Inserts(j, i)
<1>1. CASE Quiet
  BY <1>1, ExpireRows DEF Quiet
<1>2. CASE Prepare \/ \E k \in Job : Hides(k)
  BY <1>2, PrepareEffect DEF Hides, KeepsRow
<1>3. CASE Joins \/ Fails
  BY <1>3, GoalRows
<1>4. ASSUME NEW k \in Job, NEW outcome \in Outcomes, Ends(k, outcome) PROVE KeepsRow(j, i)
  BY <1>4, EndsRows
<1>5. ASSUME NEW req \in Submissions, NEW k \in Job, NEW g \in Goal, Submits(k, req, g)
      PROVE  KeepsRow(j, i) \/ Inserts(j, i)
  <2>1. CASE req.deps = <<>>
    BY <1>5, <2>1, SubmitsRows DEF KeepsRow
  <2>2. CASE req.deps # <<>>
    <3>1. /\ Evaluates(k, "submission") \/ Inserts(k, "submission")
          /\ \A h \in WaitId \ {"submission"} :
               IF Pending(waits[k][h]) THEN Cancels(k, h) ELSE waits'[k][h] = waits[k][h]
          /\ \A m \in Job \ {k}, h \in WaitId : waits'[m][h] = waits[m][h]
      BY <1>5, <2>2, SubmitsRows
    <3> QED
      BY <3>1 DEF KeepsRow
  <2> QED
    BY <2>1, <2>2
<1>6. ASSUME NEW c \in {call} \ {Null}, Moves(c) PROVE KeepsRow(j, i) \/ Inserts(j, i)
  <2> DEFINE k == c.job
             wait == c.req.wait
  <2>1. IF wait = Null THEN KeepsRow(j, i)
        ELSE /\ Evaluates(k, wait.id) \/ Inserts(k, wait.id)
             /\ \A h \in WaitId \ {wait.id} :
                  IF Pending(waits[k][h]) THEN Cancels(k, h) ELSE waits'[k][h] = waits[k][h]
             /\ \A m \in Job \ {k}, h \in WaitId : waits'[m][h] = waits[m][h]
    BY <1>6, MovesRows
  <2> HIDE DEF k, wait
  <2> QED
    BY <2>1 DEF KeepsRow
<1> QED
  BY <1>1, <1>2, <1>3, <1>4, <1>5, <1>6, KindCases

(* What the tables say of a target is final.                                *)
LEMMA JustifiedKept ==
  ASSUME History, NEW w \in WaitRow, GoalsKnown(w, goals), DepsJustified(w, goals, archive)
  PROVE  DepsJustified(w, goals', archive')
<1> SUFFICES ASSUME NEW k \in DOMAIN w.deps
             PROVE  Justified(w.descriptor[k], w.deps[k], goals', archive')
  BY DEF DepsJustified
<1> DEFINE dep == w.descriptor[k]
           id == dep.target.id
<1>1. k \in DOMAIN w.descriptor /\ dep \in Dependency
  BY WaitRowParts, DescriptorType
<1>2. Justified(dep, w.deps[k], goals, archive)
  BY DEF DepsJustified
<1>3. CASE dep.target.kind = "goal"
  <2>1. id \in Goal /\ goals[id] # Null
    BY <1>1, <1>3 DEF Dependency, Target, GoalsKnown
  <2>2. goals[id].state # "OPEN" => goals'[id] = goals[id]
    BY <2>1 DEF History, GoalFollows, goal_open
  <2> QED
    BY <1>2, <1>3, <2>2 DEF Justified
<1>4. CASE dep.target.kind # "goal"
  <2>1. id \in Job
    BY <1>1, <1>4 DEF Dependency, Target
  <2>2. archive[id] # Null => archive'[id] = archive[id]
    BY <2>1 DEF History
  <2> QED
    BY <1>2, <1>4, <2>2 DEF Justified
<1> QED
  BY <1>3, <1>4

(* The outcome of a wait is justified and follows from its dependencies.    *)
RowJustified(j, i) ==
  waits[j][i] # Null =>
    DepsJustified(waits[j][i], goals, archive) /\ StateFollows(waits[j][i], now)

RowsJustified == \A j \in Job, i \in WaitId : RowJustified(j, i)

(* The clock runs.                                                          *)
LEMMA StateStillFollows ==
  ASSUME NEW w \in WaitRow, NEW t \in Nat, NEW u \in Nat, t <= u, StateFollows(w, t)
  PROVE  StateFollows(w, u)
<1>1. w.deadline \in Nat
  BY WaitRowParts, TimeAssumption DEF Time, Infinity
<1> QED
  BY <1>1 DEF StateFollows

(* Every kind of step keeps what one wait records justified.                *)
LEMMA RowJustifiedStep ==
  ASSUME IInv, ControlInv, OneHome, RowsJustified, [Next]_vars, NEW j \in Job, NEW i \in WaitId
  PROVE  RowJustified(j, i)'
<1> DEFINE w == waits[j][i]
           v == waits'[j][i]
<1>1. goals' \in GoalTable /\ archive' \in ArchiveTable /\ waits' \in WaitTable
  BY NextInv DEF IInv, TypeOK, GoalTable, ArchiveTable, WaitTable
<1>2. now \in Nat /\ now' \in Nat /\ now <= now'
  BY ClockRuns
<1>3. History
  BY HistoryStep
<1>4. Grow
  BY <1>3 DEF Grow, History, FactsKept, GoalFollows
<1>5. ASSUME w # Null
      PROVE  /\ w \in WaitRow /\ GoalsKnown(w, goals')
             /\ DepsJustified(w, goals', archive') /\ StateFollows(w, now)
  <2>1. w \in WaitRow /\ GoalsKnown(w, goals') /\ GoalsKnown(w, goals)
    BY <1>4, <1>5, KnownGoals DEF IInv
  <2>2. DepsJustified(w, goals, archive) /\ StateFollows(w, now)
    BY <1>5 DEF RowsJustified, RowJustified
  <2> QED
    BY <1>3, <2>1, <2>2, JustifiedKept
<1>6. CASE v = w
  BY <1>2, <1>5, <1>6, StateStillFollows DEF RowJustified
<1>7. ASSUME v \in WaitRow, DepsJustified(v, goals', archive'), StateFollows(v, now)
      PROVE  RowJustified(j, i)'
  BY <1>2, <1>7, StateStillFollows DEF RowJustified
<1> HIDE DEF w, v
<1>8. v # Null => v \in WaitRow
  BY <1>1 DEF WaitTable, v
<1>9. CASE Cancels(j, i)
  <2>1. w # Null /\ v = close_wait(w, "CANCELLED")
    BY <1>9 DEF Cancels, Pending, w, v
  <2>2. DepsJustified(v, goals', archive') /\ StateFollows(v, now)
    BY <1>5, <2>1, CloseWaitJustified
  <2>3. v \in WaitRow
    BY <1>5, <2>1, CloseWaitType DEF WaitState
  <2> QED
    BY <1>7, <2>2, <2>3
<1>10. CASE Evaluates(j, i)
  <2>1. w # Null /\ v = evaluate_wait(w, now, goals', archive')
    BY <1>10 DEF Evaluates, w, v
  <2>2. DepsJustified(v, goals', archive') /\ StateFollows(v, now)
    BY <1>1, <1>2, <1>5, <2>1, EvaluateWaitJustified
  <2>3. v \in WaitRow
    BY <1>1, <1>2, <1>5, <2>1, EvaluateWaitType
  <2> QED
    BY <1>7, <2>2, <2>3
<1>11. CASE Inserts(j, i)
  <2>1. PICK deps \in Descriptors, deadline \in Time :
          /\ targets_exist(j, deps)
          /\ v = evaluate_wait(new_wait(deps, deadline), now, goals', archive')
    BY <1>11 DEF Inserts, v
  <2> DEFINE n == new_wait(deps, deadline)
  <2>2. n \in WaitRow /\ n.descriptor = deps
    BY NewWaitType
  <2>3. DepsJustified(n, goals', archive') /\ StateFollows(n, now)
    BY NewWaitJustified
  <2> HIDE DEF n
  <2>4. GoalsKnown(n, goals')
    BY <2>1, <2>2 DEF GoalsKnown, targets_exist
  <2>5. v = evaluate_wait(n, now, goals', archive')
    BY <2>1 DEF n
  <2>6. DepsJustified(v, goals', archive') /\ StateFollows(v, now)
    BY <1>1, <1>2, <2>2, <2>3, <2>4, <2>5, EvaluateWaitJustified
  <2>7. v \in WaitRow
    BY <1>1, <1>2, <2>2, <2>4, <2>5, EvaluateWaitType
  <2> QED
    BY <1>7, <2>6, <2>7
<1>12. v = w \/ Cancels(j, i) \/ Evaluates(j, i) \/ Inserts(j, i)
  BY RowEffects DEF KeepsRow, w, v
<1> QED
  BY <1>6, <1>9, <1>10, <1>11, <1>12

(* What is recorded in a wait is always justified, and its targets exist.   *)
LEMMA AllRowsJustified == Spec => [](OneHome /\ RowsJustified)
<1>1. Init => RowsJustified
  BY DEF Init, RowsJustified, RowJustified
<1>2. IInv /\ ControlInv /\ OneHome /\ RowsJustified /\ [Next]_vars => RowsJustified'
  BY RowJustifiedStep DEF RowsJustified
<1> QED
  BY <1>1, <1>2, Control, EveryJobHasOneHome, PTL DEF Spec

(* Every wait is decided by what happened: satisfied by all of its targets, *)
(* failed by one of them, timed out after its deadline, and what it records *)
(* about a target still is what the tables say.                             *)
THEOREM WaitOutcomesAreJustified == Spec => []WaitOutcomeJustified
<1>1. RowsJustified => WaitOutcomeJustified
  <2>1. ASSUME NEW dep, NEW o PROVE Justified(dep, o, goals, archive) <=> DependencyJustified(dep, o)
    BY DEF Justified, DependencyJustified
  <2> QED
    BY <2>1 DEF RowsJustified, RowJustified, DepsJustified, StateFollows, WaitOutcomeJustified
<1> QED
  BY <1>1, AllRowsJustified, PTL

-----------------------------------------------------------------------------
(* Leases *)

(* Lease ids are issued in order, and an unleased row has no worker and no  *)
(* expiry.                                                                  *)
LeaseInv ==
  \A j \in Job : jobs[j] # Null =>
    /\ jobs[j].lease_id < nextLease
    /\ jobs[j].lease_id = 0 => jobs[j].lease_worker_id = Null /\ jobs[j].lease_expires_at = 0

(* What a step does to the lease of one row.                                *)
LeaseRow(j) ==
  jobs'[j] # Null =>
    \/ /\ jobs[j] # Null /\ KeepsHolder(jobs'[j], jobs[j])
       /\ \/ jobs'[j].lease_expires_at = jobs[j].lease_expires_at
          \/ jobs[j].lease_expires_at > now
    \/ /\ jobs'[j].lease_id = 0 /\ jobs'[j].lease_worker_id = Null
       /\ jobs'[j].lease_expires_at = 0
    \/ /\ jobs'[j].lease_id = nextLease /\ jobs'[j].lease_worker_id # Null
       /\ nextLease' = nextLease + 1
       /\ jobs[j] # Null /\ jobs[j].lease_expires_at <= now

(* Every step takes at most one new lease id, and changes the lease of a    *)
(* row only in the ways LeaseRow lists.                                     *)
LEMMA LeaseRows ==
  ASSUME IInv, ControlInv, [Next]_vars
  PROVE  /\ nextLease' \in {nextLease, nextLease + 1}
         /\ \A j \in Job : LeaseRow(j)
<1>1. CASE Rests \/ Prepare \/ Joins \/ Fails \/ \E j \in Job : Hides(j)
  <2>1. UNCHANGED <<jobs, nextLease>>
    BY <1>1, PrepareEffect, GoalEffect DEF Rests, Hides
  <2> QED
    BY <2>1 DEF LeaseRow, KeepsHolder
<1>2. ASSUME NEW j \in Job, NEW row \in JobRow, Touches(j, row)
      PROVE  nextLease' = nextLease /\ \A k \in Job : LeaseRow(k)
  <2>1. jobs'[j] = row /\ \A k \in Job \ {j} : jobs'[k] = jobs[k]
    BY <1>2, RowReplaced DEF IInv, Touches
  <2>2. /\ jobs[j] # Null /\ KeepsHolder(row, jobs[j]) /\ nextLease' = nextLease
        /\ \/ row.lease_expires_at = jobs[j].lease_expires_at
           \/ jobs[j].lease_expires_at > now
    BY <1>2 DEF Touches
  <2> QED
    BY <2>1, <2>2 DEF LeaseRow, KeepsHolder
<1>3. ASSUME NEW j \in Job, NEW row \in JobRow, Leases(j, row)
      PROVE  nextLease' = nextLease + 1 /\ \A k \in Job : LeaseRow(k)
  <2>1. jobs'[j] = row /\ \A k \in Job \ {j} : jobs'[k] = jobs[k]
    BY <1>3, RowReplaced DEF IInv, Leases
  <2>2. /\ jobs[j] # Null /\ jobs[j].lease_expires_at <= now
        /\ row.lease_id = nextLease /\ row.lease_worker_id # Null
        /\ nextLease' = nextLease + 1
    BY <1>3 DEF Leases
  <2> QED
    BY <2>1, <2>2 DEF LeaseRow, KeepsHolder
<1>4. ASSUME NEW j \in Job, NEW outcome \in Outcomes, Ends(j, outcome)
      PROVE  nextLease' = nextLease /\ \A k \in Job : LeaseRow(k)
  <2>1. /\ jobs'[j] = Null /\ nextLease' = nextLease
        /\ \A k \in Job \ {j} :
             jobs'[k] = IF jobs[k] = Null THEN Null ELSE forget_completed(jobs[k], j, now)
    BY <1>4, EndsEffect
  <2>2. ASSUME NEW k \in Job \ {j}, jobs[k] # Null PROVE LeaseRow(k)
    <3>1. jobs[k] \in JobRow /\ jobs'[k] = forget_completed(jobs[k], j, now)
      BY <2>1, <2>2 DEF IInv, TypeOK
    <3>2. KeepsHolder(jobs'[k], jobs[k])
          /\ jobs'[k].lease_expires_at = jobs[k].lease_expires_at
      BY <3>1, ForgetCompletedFields
    <3> QED
      BY <2>2, <3>2 DEF LeaseRow
  <2> QED
    BY <2>1, <2>2 DEF LeaseRow
<1>5. ASSUME NEW req \in Submissions, NEW j \in Job, NEW g \in Goal, Submits(j, req, g)
      PROVE  nextLease' = nextLease /\ \A k \in Job : LeaseRow(k)
  <2>1. /\ jobs'[j].lease_id = 0 /\ jobs'[j].lease_worker_id = Null
        /\ jobs'[j].lease_expires_at = 0
        /\ \A k \in Job \ {j} : jobs'[k] = jobs[k]
    BY <1>5, SubmitsEffect
  <2> QED
    BY <1>5, <2>1 DEF LeaseRow, KeepsHolder, Submits
<1>6. ASSUME NEW c \in {call} \ {Null}, Moves(c)
      PROVE  nextLease' = nextLease /\ \A k \in Job : LeaseRow(k)
  <2> DEFINE j == c.job
  <2>1. /\ jobs'[j].lease_id = 0 /\ jobs'[j].lease_worker_id = Null
        /\ jobs'[j].lease_expires_at = 0
        /\ \A k \in Job \ {j} : jobs'[k] = jobs[k]
        /\ nextLease' = nextLease
    BY <1>6, MovesEffect
  <2> HIDE DEF j
  <2> QED
    BY <2>1 DEF LeaseRow, KeepsHolder
<1> QED
  BY <1>1, <1>2, <1>3, <1>4, <1>5, <1>6, StepKinds DEF Kinds

(* The types of the lease of a row.                                         *)
LEMMA LeaseParts ==
  ASSUME TypeOK, NEW j \in Job, jobs[j] # Null
  PROVE  /\ jobs[j].lease_id \in Nat /\ jobs[j].lease_expires_at \in Nat
         /\ jobs[j].lease_worker_id \in Worker \cup {Null}
  BY JobRowParts DEF TypeOK

(* Every step keeps the leases on rows older than the next lease id.        *)
LEMMA LeaseStep ==
  ASSUME IInv, ControlInv, LeaseInv, [Next]_vars
  PROVE  LeaseInv'
<1>1. nextLease \in Nat \ {0} /\ TypeOK /\ TypeOK'
  BY NextInv DEF IInv, TypeOK
<1>2. nextLease' \in {nextLease, nextLease + 1} /\ \A j \in Job : LeaseRow(j)
  BY LeaseRows
<1>3. \A j \in Job : jobs[j] # Null => jobs[j].lease_id \in Nat
  BY <1>1, LeaseParts
<1> SUFFICES ASSUME NEW j \in Job, jobs'[j] # Null
             PROVE  /\ jobs'[j].lease_id < nextLease'
                    /\ jobs'[j].lease_id = 0 =>
                         jobs'[j].lease_worker_id = Null /\ jobs'[j].lease_expires_at = 0
  BY DEF LeaseInv
<1>4. CASE jobs[j] # Null /\ KeepsHolder(jobs'[j], jobs[j])
           /\ jobs'[j].lease_expires_at = jobs[j].lease_expires_at
  BY <1>1, <1>2, <1>3, <1>4 DEF LeaseInv, KeepsHolder
<1>5. CASE jobs[j] # Null /\ KeepsHolder(jobs'[j], jobs[j]) /\ jobs[j].lease_expires_at > now
  <2>1. jobs[j].lease_id # 0
    BY <1>1, <1>5, TimeAssumption DEF LeaseInv, TypeOK
  <2> QED
    BY <1>1, <1>2, <1>3, <1>5, <2>1 DEF LeaseInv, KeepsHolder
<1>6. CASE jobs'[j].lease_id = 0 /\ jobs'[j].lease_worker_id = Null
           /\ jobs'[j].lease_expires_at = 0
  BY <1>1, <1>2, <1>6
<1>7. CASE jobs'[j].lease_id = nextLease /\ nextLease' = nextLease + 1
  BY <1>1, <1>7
<1> QED
  BY <1>2, <1>4, <1>5, <1>6, <1>7 DEF LeaseRow

(* Lease ids on rows have been issued, and a row without one has no holder. *)
LEMMA LeasesInOrder == Spec => []LeaseInv
<1>1. Init => LeaseInv
  BY DEF Init, LeaseInv
<1>2. IInv /\ ControlInv /\ LeaseInv /\ [Next]_vars => LeaseInv'
  BY LeaseStep
<1> QED
  BY <1>1, <1>2, Control, PTL DEF Spec

(* No step makes a lease valid again that was issued before and is not.     *)
LEMMA LeaseEnded ==
  ASSUME IInv, ControlInv, [Next]_vars
  PROVE  \A lease \in 1 .. nextLease - 1 : LeaseHeld(lease)' => LeaseHeld(lease)
<1> SUFFICES ASSUME NEW lease \in 1 .. nextLease - 1, NEW j \in Job, NEW w \in Worker,
                    jobs'[j] # Null, jobs'[j].lease_id = lease,
                    jobs'[j].lease_worker_id = w, jobs'[j].lease_expires_at > now'
             PROVE  LeaseHeld(lease)
  BY DEF LeaseHeld, lease_valid
<1>1. /\ nextLease \in Nat \ {0} /\ lease # 0 /\ lease # nextLease
      /\ TypeOK /\ TypeOK'
  BY NextInv DEF IInv, TypeOK
<1>2. LeaseRow(j)
  BY LeaseRows
<1>3. jobs[j] # Null /\ KeepsHolder(jobs'[j], jobs[j])
      /\ \/ jobs'[j].lease_expires_at = jobs[j].lease_expires_at
         \/ jobs[j].lease_expires_at > now
  BY <1>1, <1>2 DEF LeaseRow
<1>4. jobs[j].lease_expires_at > now
  BY <1>1, <1>3, LeaseParts, ClockRuns
<1>5. lease_valid(jobs[j], lease, w)
  BY <1>1, <1>3, <1>4 DEF lease_valid, KeepsHolder
<1> QED
  BY <1>5 DEF LeaseHeld

(* A lease that has ended is never valid again: no renewal, poll, claim or  *)
(* late call brings a lease id back.                                        *)
THEOREM LeasesEndForGood == Spec => LeaseNeverRevives
<1> DEFINE Final == \A lease \in 1 .. nextLease - 1 : LeaseHeld(lease)' => LeaseHeld(lease)
<1>1. IInv /\ ControlInv /\ [Next]_vars => [Final]_vars
  BY LeaseEnded
<1> HIDE DEF Final
<1>2. Spec => [][Final]_vars
  BY <1>1, Control, PTL DEF Spec
<1> QED
  BY <1>2 DEF LeaseNeverRevives, Final

(* While a lease is valid nobody else gets a lease on its job, although a   *)
(* poll decides on an older snapshot and an older clock reading.            *)
THEOREM LeasesAreExclusive == Spec => LeaseExclusive
<1> DEFINE Final ==
      \A j \in Job :
        jobs[j] # Null /\ jobs[j].lease_expires_at > now /\ jobs'[j] # Null =>
          jobs'[j].lease_id \in {0, jobs[j].lease_id}
<1>1. ASSUME IInv, ControlInv, [Next]_vars PROVE Final
  <2>1. now \in Nat /\ TypeOK /\ \A j \in Job : LeaseRow(j)
    BY <1>1, LeaseRows, ClockRuns DEF IInv
  <2>2. \A j \in Job : jobs[j] # Null => jobs[j].lease_expires_at \in Nat
    BY <2>1, LeaseParts
  <2> QED
    BY <2>1, <2>2 DEF LeaseRow, KeepsHolder
<1>2. IInv /\ ControlInv /\ [Next]_vars => [Final]_vars
  BY <1>1
<1> HIDE DEF Final
<1>3. Spec => [][Final]_vars
  BY <1>2, Control, PTL DEF Spec
<1> QED
  BY <1>3 DEF LeaseExclusive, Final

(* An open call is only ended by its own second step.                       *)
LEMMA CallKept ==
  ASSUME [Next]_vars, call # Null, ~EndCall
  PROVE  call' = call
<1>1. ASSUME Tick \/ Prepare \/ Submit \/ (\E j \in Job : commit_renewal(j)) \/ UNCHANGED vars
      PROVE  call' = call
  BY <1>1 DEF Tick, Prepare, prepare_job, reprepare_job, Submit, submit_native_job,
              commit_renewal, vars
<1>2. ASSUME Claim \/ Renew \/ ClearCrashConcern PROVE call' = call
  BY <1>2 DEF Claim, claim_native_task, Renew, renew_native_lease, ClearCrashConcern,
              clear_crash_concern
<1>3. ASSUME Complete \/ Reschedule PROVE FALSE
  BY <1>3 DEF Complete, complete_native_job, complete_native_unheld_job, Reschedule,
              reschedule_native_job, lock_job_for_status, goal_lock_free
<1>4. ASSUME NEW w \in Worker, Poll(w) PROVE call' = call
  BY <1>4 DEF Poll, poll_expire, poll_snapshot, poll_none, poll_lock
<1>5. ASSUME Cancel \/ Goals \/ Delete \/ \E j \in deleting : delete_one_job(j)
      PROVE  call' = call
  BY <1>5 DEF Cancel, cancel_native_job, Goals, add_goal_candidate, fail_goal, Delete,
              delete_native_jobs, delete_one_job
<1> QED
  BY <1>1, <1>2, <1>3, <1>4, <1>5 DEF Next

(* A job is rescheduled under a lease only for a worker that holds a lease  *)
(* on it, although the call was let through before the row was locked.      *)
THEOREM ReschedulesAreFenced == Spec => RescheduleFenced
<1> DEFINE Final ==
      call # Null /\ call.req # Null /\ call.lease # 0 /\ jobs' # jobs /\ call' = Null =>
        \E lease \in 1 .. nextLease - 1 : lease_valid(jobs[call.job], lease, call.worker)
<1>1. ASSUME IInv, ControlInv, LeaseInv, [Next]_vars PROVE Final
  <2> SUFFICES ASSUME call # Null, call.req # Null, call.lease # 0, jobs' # jobs, call' = Null
               PROVE  \E lease \in 1 .. nextLease - 1 :
                        lease_valid(jobs[call.job], lease, call.worker)
    OBVIOUS
  <2>1. PICK c \in {call} \ {Null} : reschedule_locked_job(c)
    <3>1. EndCall
      BY <1>1, CallKept
    <3>2. call.outcome = Null
      BY <1>1 DEF ControlInv
    <3>3. ~roll_back_call
      BY DEF roll_back_call, tables
    <3> QED
      BY <3>1, <3>2, <3>3 DEF EndCall, complete_native_locked_job
  <2> DEFINE j == c.job
             lease == jobs[j].lease_id
  <2>2. j \in Job /\ jobs[j] # Null
    BY <1>1, <2>1, MovesEffect DEF Moves, IInv, CallInv
  <2>3. jobs[j].lease_worker_id = call.worker /\ jobs[j].lease_expires_at > now
    BY <2>1 DEF reschedule_locked_job, still_authorised
  <2>4. call.worker # Null
    BY <1>1 DEF ControlInv
  <2>5. lease \in Nat /\ lease # 0 /\ lease < nextLease /\ nextLease \in Nat
    BY <1>1, <2>2, <2>3, <2>4, LeaseParts DEF LeaseInv, IInv, TypeOK
  <2>6. lease_valid(jobs[j], lease, call.worker)
    BY <2>2, <2>3, <2>5 DEF lease_valid
  <2>7. lease \in 1 .. nextLease - 1
    BY <2>5
  <2> QED
    BY <2>6, <2>7
<1>2. IInv /\ ControlInv /\ LeaseInv /\ [Next]_vars => [Final]_vars
  BY <1>1
<1> HIDE DEF Final
<1>3. Spec => [][Final]_vars
  BY <1>2, Control, LeasesInOrder, PTL DEF Spec
<1> QED
  BY <1>3 DEF RescheduleFenced, Final

-----------------------------------------------------------------------------
(* No circular waiting *)

(* A dependency of a wait that is not new is pending only if it was.        *)
LEMMA PendingShrinks ==
  ASSUME IInv, ControlInv, OneHome, RowsJustified, [Next]_vars,
         NEW j \in Job, NEW i \in WaitId, KeepsRow(j, i), Pending(waits'[j][i]),
         NEW k \in DOMAIN waits'[j][i].deps, waits'[j][i].deps[k].state = "PENDING"
  PROVE  /\ Pending(waits[j][i])
         /\ k \in DOMAIN waits[j][i].deps /\ waits[j][i].deps[k].state = "PENDING"
         /\ waits'[j][i].descriptor = waits[j][i].descriptor
         /\ waits'[j][i].deadline = waits[j][i].deadline
<1> DEFINE w == waits[j][i]
           v == waits'[j][i]
<1>1. w # Null
  BY DEF KeepsRow, Cancels, Evaluates, Pending
<1>2. Pending(w)
  BY <1>1, PendingBefore
<1>3. v.descriptor = w.descriptor /\ v.deadline = w.deadline
  BY <1>1, NextPreserves DEF Preserves, WaitsFollow, WaitStep, Kept
<1>4. ~Cancels(j, i)
  BY CancelledRow DEF IInv
<1>5. CASE v = w
  BY <1>2, <1>5
<1>6. CASE Evaluates(j, i)
  <2>1. goals' \in GoalTable /\ archive' \in ArchiveTable /\ now \in Nat
    BY NextInv, ClockRuns DEF IInv, TypeOK, GoalTable, ArchiveTable
  <2>2. History
    BY HistoryStep
  <2>3. Grow
    BY <2>2 DEF Grow, History, FactsKept, GoalFollows
  <2>4. w \in WaitRow /\ GoalsKnown(w, goals') /\ GoalsKnown(w, goals)
    BY <1>1, <2>3, KnownGoals DEF IInv
  <2>5. DepsJustified(w, goals', archive') /\ StateFollows(w, now)
    BY <1>1, <2>2, <2>4, JustifiedKept DEF RowsJustified, RowJustified
  <2>6. v = evaluate_wait(w, now, goals', archive') /\ v.state = "PENDING"
    BY <1>6 DEF Evaluates, Pending
  <2> HIDE DEF w, v
  <2>7. \A h \in DOMAIN v.deps :
          v.deps[h].state = "PENDING" => h \in DOMAIN w.deps /\ w.deps[h].state = "PENDING"
    BY <2>1, <2>4, <2>5, <2>6, EvaluateWaitJustified
  <2> QED
    BY <1>2, <1>3, <2>7 DEF w, v
<1> QED
  BY <1>2, <1>3, <1>4, <1>5, <1>6 DEF KeepsRow

(* A job without a new wait waits for nothing new.                          *)
LEMMA JobEdges ==
  ASSUME IInv, ControlInv, OneHome, RowsJustified, [Next]_vars,
         NEW j \in Job, \A i \in WaitId : KeepsRow(j, i),
         NEW n \in Target, n.kind = "job", n.id = j, NEW m \in Target, edge(n, m)'
  PROVE  edge(n, m)
<1>1. History /\ now \in Nat /\ now' \in Nat /\ now <= now'
  BY HistoryStep, ClockRuns
<1>2. archive[j] = Null
  BY <1>1 DEF edge, History
<1>3. PICK i \in WaitId : /\ [job |-> j, wait |-> i, target |-> m] \in targets'
                          /\ waits'[j][i].deadline > now'
  BY DEF edge
<1> DEFINE t == [job |-> j, wait |-> i, target |-> m]
<1>4. t \in TargetRow /\ t.job = j /\ t.wait = i /\ t.target = m
  BY DEF TargetRow
<1>5. pending_target(waits', t)
  BY <1>3, NextInv DEF IInv, TargetsExact
<1> HIDE DEF t
<1>6. Pending(waits'[j][i])
  BY <1>4, <1>5 DEF pending_target, Pending
<1>7. PICK k \in DOMAIN waits'[j][i].deps :
        waits'[j][i].deps[k].state = "PENDING" /\ waits'[j][i].descriptor[k].target = m
  BY <1>4, <1>5 DEF pending_target
<1>8. /\ Pending(waits[j][i])
      /\ k \in DOMAIN waits[j][i].deps /\ waits[j][i].deps[k].state = "PENDING"
      /\ waits'[j][i].descriptor = waits[j][i].descriptor
      /\ waits'[j][i].deadline = waits[j][i].deadline
  BY <1>6, <1>7, PendingShrinks
<1>9. t \in targets
  BY <1>4, <1>7, <1>8 DEF IInv, TargetsExact, pending_target, Pending
<1>10. waits[j][i].deadline > now
  <2>1. waits[j][i].deadline \in Nat
    <3>1. waits[j][i] \in WaitRow
      BY <1>8 DEF IInv, TypeOK, Pending
    <3> QED
      BY <3>1, WaitRowParts, TimeAssumption DEF Time, Infinity
  <2> QED
    BY <1>1, <1>3, <1>8, <2>1
<1> QED
  BY <1>2, <1>9, <1>10 DEF edge, t

(* A goal without a new member waits for nothing new.                       *)
LEMMA GoalEdges ==
  ASSUME History, NEW g \in Goal, goal_open(g)' => goal_open(g),
         \A k \in Job : goal_member(g, k)' => goal_member(g, k),
         NEW n \in Target, n.kind = "goal", n.id = g, NEW m \in Target, edge(n, m)'
  PROVE  edge(n, m)
<1>1. m.kind = "job" /\ m.id \in Job
  BY DEF edge, Target
<1>2. archive[m.id] = Null
  BY <1>1 DEF edge, History
<1> QED
  BY <1>1, <1>2 DEF edge

(* If new edges start only at nodes that no closed set contains, the graph  *)
(* stays acyclic: a closed set was closed before.                           *)
LEMMA NewEdges ==
  ASSUME Acyclic, NEW N,
         \A S \in SUBSET Target : closed(S)' => S \cap N = {},
         \A n \in Target \ N, m \in Target : edge(n, m)' => edge(n, m)
  PROVE  Acyclic'
<1> SUFFICES ASSUME NEW S \in SUBSET Target, closed(S)' PROVE S = {}
  BY DEF Acyclic
<1>1. \A n \in S : n \in Target \ N
  OBVIOUS
<1>2. closed(S)
  BY <1>1 DEF closed
<1> QED
  BY <1>2 DEF Acyclic

(* A start node that _check_goal_cycle accepts is in no closed set.         *)
LEMMA Checked ==
  ASSUME NEW n, ~goal_cycle(n)', NEW S \in SUBSET Target, closed(S)'
  PROVE  n \notin S
  BY DEF goal_cycle

(* The waits of every job but those in N are kept, goals stay closed, and   *)
(* goals outside N get no members.                                          *)
LEMMA EdgesShrink ==
  ASSUME IInv, ControlInv, OneHome, RowsJustified, [Next]_vars, NEW N,
         \A j \in Job, i \in WaitId : JobTarget(j) \notin N => KeepsRow(j, i),
         \A g \in Goal : GoalTarget(g) \notin N =>
           /\ goal_open(g)' => goal_open(g)
           /\ \A k \in Job : goal_member(g, k)' => goal_member(g, k)
  PROVE  \A n \in Target \ N, m \in Target : edge(n, m)' => edge(n, m)
<1>1. History
  BY HistoryStep
<1> TAKE n \in Target \ N, m \in Target
<1> HAVE edge(n, m)'
<1>2. CASE n.kind = "job"
  <2>1. n.id \in Job /\ n = JobTarget(n.id)
    BY <1>2 DEF Target, JobTarget
  <2> QED
    BY <1>2, <2>1, JobEdges
<1>3. CASE n.kind = "goal"
  <2>1. n.id \in Goal /\ n = GoalTarget(n.id)
    BY <1>3 DEF Target, GoalTarget
  <2> QED
    BY <1>1, <1>3, <2>1, GoalEdges
<1> QED
  BY <1>2, <1>3 DEF Target

(* No kind of step closes a circle.                                         *)
LEMMA AcyclicStep ==
  ASSUME IInv, ControlInv, OneHome, MembersKnown, PendingWaitCurrent, RowsJustified, Acyclic,
         [Next]_vars
  PROVE  Acyclic'
<1> DEFINE Opens(N) == \A g \in Goal : GoalTarget(g) \notin N => (goal_open(g)' => goal_open(g))
           Members(N) == \A g \in Goal : GoalTarget(g) \notin N =>
                           \A k \in Job : goal_member(g, k)' => goal_member(g, k)
           Rows(N) == \A j \in Job, i \in WaitId : JobTarget(j) \notin N => KeepsRow(j, i)
<1>1. ASSUME NEW N, Opens(N), Members(N), Rows(N),
             \A S \in SUBSET Target : closed(S)' => S \cap N = {}
      PROVE  Acyclic'
  <2>1. \A n \in Target \ N, m \in Target : edge(n, m)' => edge(n, m)
    BY <1>1, EdgesShrink
  <2> QED
    BY <1>1, <2>1, NewEdges
<1> HIDE DEF Opens, Members, Rows
<1>2. ASSUME Opens({}), Members({}), Rows({}) PROVE Acyclic'
  <2> DEFINE N == {}
  <2>1. \A S \in SUBSET Target : closed(S)' => S \cap N = {}
    OBVIOUS
  <2>2. Opens(N) /\ Members(N) /\ Rows(N)
    BY <1>2
  <2> HIDE DEF N
  <2> QED
    BY <1>1, <2>1, <2>2
<1>3. ASSUME NEW N, UNCHANGED <<facts, candidates, goals>>
      PROVE  Opens(N) /\ Members(N)
  BY <1>3 DEF Opens, Members, goal_open, goal_member
<1>4. CASE Quiet
  <2>1. Rows({})
    BY <1>4, ExpireRows DEF Quiet, Rows
  <2> QED
    BY <1>2, <1>3, <1>4, <2>1 DEF Quiet
<1>5. CASE Prepare
  <2>1. Rows({})
    BY <1>5, PrepareEffect DEF Rows, KeepsRow
  <2> QED
    BY <1>2, <1>3, <1>5, <2>1, PrepareEffect
<1>6. CASE Fails
  <2>1. Rows({})
    BY <1>6, GoalRows DEF Rows
  <2>2. Members({})
    BY <1>6, GoalEffect, FailsEffect DEF Members, goal_member
  <2>3. Opens({})
    BY <1>6, FailsEffect DEF Opens, goal_open
  <2> QED
    BY <1>2, <2>1, <2>2, <2>3
<1>7. CASE Joins
  <2>1. PICK g \in Goal, j \in Job :
          /\ goal_open(g) /\ candidates' = candidates \cup {<<g, j>>}
          /\ \A h \in Goal \ {g} : goals'[h] = goals[h]
          /\ ~goal_cycle(GoalTarget(g))'
    BY <1>7, JoinsEffect
  <2> DEFINE N == {GoalTarget(g)}
  <2>2. \A h \in Goal : GoalTarget(h) \notin N => h # g
    OBVIOUS
  <2>3. \A S \in SUBSET Target : closed(S)' => S \cap N = {}
    BY <2>1, Checked
  <2> HIDE DEF N
  <2>4. Opens(N)
    BY <2>1, <2>2 DEF Opens, goal_open
  <2>5. facts' = facts
    BY <1>7, GoalEffect
  <2>6. Members(N)
    BY <2>1, <2>2, <2>5 DEF Members, goal_member
  <2>7. Rows(N)
    BY <1>7, GoalRows DEF Rows
  <2> QED
    BY <1>1, <2>3, <2>4, <2>6, <2>7
<1>8. ASSUME NEW j \in Job, Hides(j) PROVE Acyclic'
  <2>1. /\ FactsKept /\ \A k \in Job : facts'[k] # Null => facts[k] # Null
        /\ UNCHANGED <<goals, candidates, waits>>
    BY <1>8, HiddenEffect DEF Hides, IInv
  <2>2. Members({})
    BY <2>1, MembersKept DEF Members
  <2>3. Opens({}) /\ Rows({})
    BY <2>1 DEF Opens, goal_open, Rows, KeepsRow
  <2> QED
    BY <1>2, <2>2, <2>3
<1>9. ASSUME NEW j \in Job, NEW outcome \in Outcomes, Ends(j, outcome) PROVE Acyclic'
  <2>1. /\ FactsKept /\ \A k \in Job : facts'[k] # Null => facts[k] # Null
        /\ UNCHANGED candidates
        /\ \A g \in Goal :
             goals'[g] = IF g \in won_goals(j, outcome) THEN Won(j) ELSE goals[g]
    BY <1>9, EndsEffect
  <2>2. Members({})
    BY <2>1, MembersKept DEF Members
  <2>3. Opens({})
    BY <2>1, WonRow DEF Opens, goal_open
  <2>4. Rows({})
    BY <1>9, EndsRows DEF Rows
  <2> QED
    BY <1>2, <2>2, <2>3, <2>4
<1>10. ASSUME NEW req \in Submissions, NEW j \in Job, NEW g \in Goal, Submits(j, req, g)
       PROVE  Acyclic'
  <2> DEFINE N == {JobTarget(j), GoalTarget(g)}
  <2>1. /\ goals'[g] # Null /\ goals'[g].state = "OPEN"
        /\ \A h \in Goal \ {g} : goals'[h] = goals[h]
        /\ \A h \in Goal, k \in Job :
             goal_member(h, k)' <=> goal_member(h, k) \/ (h = g /\ k = j)
    BY <1>10, SubmitsMembers
  <2>2. ASSUME NEW S \in SUBSET Target, closed(S)' PROVE JobTarget(j) \notin S
    <3>1. CASE req.deps # <<>>
      BY <1>10, <2>2, <3>1, Checked DEF Submits
    <3>2. CASE req.deps = <<>>
      <4> SUFFICES ASSUME JobTarget(j) \in S PROVE FALSE
        OBVIOUS
      <4>1. UNCHANGED targets
        BY <1>10, <3>2 DEF Submits
      <4>2. PICK m \in S : edge(JobTarget(j), m)'
        BY <2>2 DEF closed
      <4>3. PICK i \in WaitId : [job |-> j, wait |-> i, target |-> m] \in targets
        BY <4>1, <4>2 DEF edge, JobTarget
      <4>4. pending_target(waits, [job |-> j, wait |-> i, target |-> m])
        BY <4>3 DEF IInv, TargetsExact
      <4>5. jobs[j] # Null
        BY <4>4 DEF pending_target, PendingWaitCurrent
      <4> QED
        BY <1>10, <4>5 DEF Submits, OneHome
    <3> QED
      BY <3>1, <3>2
  <2>3. ASSUME NEW S \in SUBSET Target, closed(S)' PROVE GoalTarget(g) \notin S
    <3>1. CASE req.share
      BY <1>10, <2>3, <3>1, Checked DEF Submits
    <3>2. CASE ~req.share
      <4> SUFFICES ASSUME GoalTarget(g) \in S PROVE FALSE
        OBVIOUS
      <4>1. goals[g] = Null
        BY <1>10, <3>2 DEF Submits
      <4>2. \A k \in Job : goal_member(g, k)' => k = j
        BY <2>1, <4>1 DEF goal_member, MembersKnown
      <4>3. PICK m \in S : edge(GoalTarget(g), m)'
        BY <2>3 DEF closed
      <4>4. m.kind = "job" /\ m.id \in Job /\ goal_member(g, m.id)'
        BY <4>3 DEF edge, GoalTarget, Target
      <4>5. m = JobTarget(j)
        BY <4>2, <4>4 DEF Target, JobTarget
      <4> QED
        BY <2>2, <2>3, <4>5
    <3> QED
      BY <3>1, <3>2
  <2>4. \A S \in SUBSET Target : closed(S)' => S \cap N = {}
    BY <2>2, <2>3
  <2>5. /\ \A k \in Job : JobTarget(k) \notin N => k # j
        /\ \A h \in Goal : GoalTarget(h) \notin N => h # g
    OBVIOUS
  <2>6. \A k \in Job \ {j}, i \in WaitId : KeepsRow(k, i)
    BY <1>10, SubmitsRows DEF KeepsRow
  <2> HIDE DEF N
  <2>7. Opens(N) /\ Members(N) /\ Rows(N)
    BY <2>1, <2>5, <2>6 DEF Opens, Members, Rows, goal_open
  <2> QED
    BY <1>1, <2>4, <2>7
<1>11. ASSUME NEW c \in {call} \ {Null}, Moves(c) PROVE Acyclic'
  <2> DEFINE j == c.job
             wait == c.req.wait
             old == waits[j][wait.id]
             N == IF wait # Null /\ old = Null THEN {JobTarget(j)} ELSE {}
  <2>1. j \in Job /\ UNCHANGED <<facts, candidates, goals>>
    BY <1>11, MovesEffect
  <2>2. wait # Null /\ old = Null => ~goal_cycle(JobTarget(j))'
    BY <1>11 DEF Moves, reschedule_locked_job
  <2>3. \A S \in SUBSET Target : closed(S)' => S \cap N = {}
    BY <2>2, Checked
  <2>4. \A k \in Job, i \in WaitId : KeepsRow(k, i) \/ (wait # Null /\ old = Null /\ k = j)
    <3>1. IF wait = Null THEN \A k \in Job, i \in WaitId : KeepsRow(k, i)
          ELSE /\ Evaluates(j, wait.id) \/ Inserts(j, wait.id)
               /\ \A i \in WaitId \ {wait.id} :
                    IF Pending(waits[j][i]) THEN Cancels(j, i)
                    ELSE waits'[j][i] = waits[j][i]
               /\ \A k \in Job \ {j}, i \in WaitId : waits'[k][i] = waits[k][i]
      BY <1>11, MovesRows
    <3> HIDE DEF j, wait
    <3> QED
      BY <2>1, <3>1 DEF KeepsRow, Inserts
  <2>5. wait # Null /\ old = Null => \A k \in Job : JobTarget(k) \notin N => k # j
    OBVIOUS
  <2> HIDE DEF N, wait, j
  <2>6. Rows(N)
    BY <2>4, <2>5 DEF Rows
  <2>7. Opens(N) /\ Members(N)
    BY <1>3, <2>1
  <2> QED
    BY <1>1, <2>3, <2>6, <2>7
<1> QED
  BY <1>4, <1>5, <1>6, <1>7, <1>8, <1>9, <1>10, <1>11, KindCases

(* Jobs and goals never wait for each other in a circle, although the waits *)
(* and memberships that would close one are added by different clients:     *)
(* every one of them is checked from its own start, and all other edges     *)
(* only disappear.                                                          *)
THEOREM NobodyWaitsInACircle == Spec => []Acyclic
<1>1. Init => Acyclic
  BY DEF Init, Acyclic, closed, edge, goal_open, Target
<1>2. IInv /\ ControlInv /\ OneHome /\ MembersKnown /\ PendingWaitCurrent /\ RowsJustified
        /\ Acyclic /\ [Next]_vars => Acyclic'
  BY AcyclicStep
<1> QED
  BY <1>1, <1>2, Control, KnownMembers, PendingWaitsAreCurrent, AllRowsJustified, PTL DEF Spec

-----------------------------------------------------------------------------
(* The scheduler implements JobGoals: the initial state is one of JobGoals, *)
(* and every kind of step is a step of JobGoals or changes nothing that     *)
(* JobGoals speaks of.                                                      *)

(* The states in which the mapping works: an open goal names no job.        *)
OpenUndecided == \A g \in Goal : goal_open(g) => goals[g].successful_job_id = Null

(* The row a failed goal gets.                                              *)
Lost == [state |-> "FAILED", successful_job_id |-> Null]

(* The rows a goal can get are not Null and say what they were built from.  *)
LEMMA NewGoalRows ==
  /\ Lost # Null /\ Lost.state = "FAILED" /\ Lost.successful_job_id = Null
  /\ NewGoal # Null /\ NewGoal.state = "OPEN" /\ NewGoal.successful_job_id = Null
<1>1. /\ Lost \in GoalRow /\ Lost.state = "FAILED" /\ Lost.successful_job_id = Null
      /\ NewGoal \in GoalRow /\ NewGoal.state = "OPEN" /\ NewGoal.successful_job_id = Null
  BY DEF Lost, NewGoal, GoalRow
<1> QED
  BY <1>1, RowAssumption

(* What the steps that write goals write.                                   *)
LEMMA GoalWrites ==
  ASSUME IInv, ControlInv, [Next]_vars, NEW g \in Goal
  PROVE  \/ goals'[g] = goals[g]
         \/ goals[g] = Null /\ goals'[g] = NewGoal
         \/ goal_open(g) /\ \/ goals'[g] = Lost
                            \/ \E j \in Job : goals'[g] = Won(j)
<1>1. goals \in [Goal -> GoalRow \cup {Null}]
  BY DEF IInv, TypeOK
<1>2. CASE Quiet \/ Prepare \/ (\E j \in Job : Hides(j)) \/ \E c \in {call} \ {Null} : Moves(c)
  BY <1>2, PrepareEffect, MovesEffect DEF Quiet, Hides
<1>3. CASE Joins
  BY <1>1, <1>3 DEF Joins, add_goal_candidate, close_goal, Won
<1>4. CASE Fails
  BY <1>1, <1>4 DEF Fails, fail_goal, close_goal, Lost
<1>5. ASSUME NEW j \in Job, NEW outcome \in Outcomes, Ends(j, outcome)
      PROVE  goals'[g] = goals[g] \/ (goal_open(g) /\ goals'[g] = Won(j))
  <2>1. \A h \in Goal : goals'[h] = IF h \in won_goals(j, outcome) THEN Won(j) ELSE goals[h]
    BY <1>5, EndsEffect
  <2> QED
    BY <2>1 DEF won_goals
<1>6. ASSUME NEW req \in Submissions, NEW j \in Job, NEW h \in Goal, Submits(j, req, h)
      PROVE  goals'[g] = goals[g] \/ (goals[g] = Null /\ goals'[g] = NewGoal)
  BY <1>1, <1>6 DEF Submits
<1> QED
  BY <1>2, <1>3, <1>4, <1>5, <1>6, KindCases

(* An open goal names no job in any reachable state.                        *)
LEMMA OpenGoalsNameNobody == Spec => [](OneHome /\ OpenUndecided)
<1>1. Init => OpenUndecided
  BY DEF Init, OpenUndecided, goal_open
<1>2. ASSUME IInv, ControlInv, OpenUndecided, [Next]_vars PROVE OpenUndecided'
  <2> SUFFICES ASSUME NEW g \in Goal, goal_open(g)' PROVE goals'[g].successful_job_id = Null
    BY DEF OpenUndecided
  <2> QED
    BY <1>2, GoalWrites, NewGoalRows, WonRow DEF OpenUndecided, goal_open
<1> QED
  BY <1>1, <1>2, Control, EveryJobHasOneHome, PTL DEF Spec

-----------------------------------------------------------------------------
(* Steps of JobGoals, row by row *)

SameLife(k) == life_of(k)' = life_of(k)
SameHolder(k) == holder_of(k)' = holder_of(k)
SameGoal(g) == goal_of(g)' = goal_of(g)
SameMember(g, k) == goal_member(g, k)' <=> goal_member(g, k)

(* The tuples of members are equal if the members are.                      *)
LEMMA SameMembers ==
  ASSUME \A g \in Goal, k \in Job : SameMember(g, k)
  PROVE  {p \in Goal \X Job : goal_member(p[1], p[2])'} = {p \in Goal \X Job : goal_member(p[1], p[2])}
  BY DEF SameMember

(* Holders that are released, or stay.                                      *)
LEMMA PromisedRelease ==
  ASSUME \A k \in Job : SameLife(k) /\ holder_of(k)' \in {0, holder_of(k)},
         \A g \in Goal : SameGoal(g),
         \A g \in Goal, k \in Job : SameMember(g, k),
         nextLease' = nextLease
  PROVE  Promise!Next
<1> DEFINE S == {k \in Job : holder_of(k)' = 0}
<1>1. Promise!Release(S)
  BY SameMembers DEF Promise!Release, SameLife, SameGoal
<1> QED
  BY <1>1 DEF Promise!Next

(* A job without holder that is given a new lease, in time or not.          *)
LEMMA PromisedLease ==
  ASSUME NEW j \in Job,
         \A k \in Job : SameLife(k),
         \A k \in Job \ {j} : SameHolder(k),
         \A g \in Goal : SameGoal(g),
         \A g \in Goal, k \in Job : SameMember(g, k),
         nextLease \in Nat, nextLease' = nextLease + 1,
         life_of(j) = "live", holder_of(j) = 0, holder_of(j)' \in {0, nextLease}
  PROVE  Promise!Next
<1>1. nextLease' - 1 = (nextLease - 1) + 1 /\ nextLease' - 1 = nextLease
  OBVIOUS
<1>2. Promise!Lease(j)
  BY <1>1, SameMembers DEF Promise!Lease, SameLife, SameHolder, SameGoal
<1> QED
  BY <1>2 DEF Promise!Next

(* A new job, for a new goal or for an open one.                            *)
LEMMA PromisedSubmit ==
  ASSUME NEW j \in Job, NEW g \in Goal,
         life_of(j) = "unknown", life_of(j)' = "live",
         \A k \in Job \ {j} : SameLife(k),
         \A k \in Job : SameHolder(k),
         goal_of(g) \in {Null, Promise!Open}, goal_of(g)' = Promise!Open,
         \A h \in Goal \ {g} : SameGoal(h),
         goal_member(g, j)',
         \A h \in Goal, k \in Job : <<h, k>> # <<g, j>> => SameMember(h, k),
         nextLease' = nextLease
  PROVE  Promise!Next
<1>1. {p \in Goal \X Job : goal_member(p[1], p[2])'} =
      {p \in Goal \X Job : goal_member(p[1], p[2])} \cup {<<g, j>>}
  BY DEF SameMember
<1>2. Promise!Submit(j, g)
  BY <1>1 DEF Promise!Submit, SameLife, SameHolder, SameGoal
<1> QED
  BY <1>2 DEF Promise!Next

(* A job that ends, with the open goals it succeeds for.                    *)
LEMMA PromisedEnd ==
  ASSUME NEW j \in Job, NEW outcome \in Outcomes,
         life_of(j) = "live", life_of(j)' = outcome,
         \A k \in Job \ {j} : SameLife(k) /\ SameHolder(k),
         holder_of(j)' = 0,
         \A h \in Goal : goal_of(h)' =
           IF outcome = "success" /\ goal_member(h, j) /\ goal_of(h) = Promise!Open
           THEN Promise!SucceededBy(j) ELSE goal_of(h),
         \A h \in Goal, k \in Job : SameMember(h, k),
         nextLease' = nextLease
  PROVE  Promise!Next
<1>1. \A h \in Goal : <<h, j>> \in {p \in Goal \X Job : goal_member(p[1], p[2])} <=>
                        goal_member(h, j)
  OBVIOUS
<1>2. Promise!End(j, outcome)
  BY <1>1, SameMembers DEF Promise!End, SameLife, SameHolder
<1> QED
  BY <1>2 DEF Promise!Next, Outcomes

(* A candidate, which decides the goal if it has succeeded.                 *)
LEMMA PromisedJoin ==
  ASSUME NEW j \in Job, NEW g \in Goal,
         \A k \in Job : SameLife(k) /\ SameHolder(k),
         life_of(j) # "unknown",
         ~goal_member(g, j), goal_member(g, j)',
         \A h \in Goal, k \in Job : <<h, k>> # <<g, j>> => SameMember(h, k),
         goal_of(g) = Promise!Open,
         goal_of(g)' = IF life_of(j) = "success" THEN Promise!SucceededBy(j) ELSE goal_of(g),
         \A h \in Goal \ {g} : SameGoal(h),
         nextLease' = nextLease
  PROVE  Promise!Next
<1>1. {p \in Goal \X Job : goal_member(p[1], p[2])'} =
      {p \in Goal \X Job : goal_member(p[1], p[2])} \cup {<<g, j>>}
  BY DEF SameMember
<1>2. Promise!Join(g, j)
  BY <1>1 DEF Promise!Join, SameLife, SameHolder, SameGoal
<1> QED
  BY <1>2 DEF Promise!Next

(* A goal that fails.                                                       *)
LEMMA PromisedFail ==
  ASSUME NEW g \in Goal,
         \A k \in Job : SameLife(k) /\ SameHolder(k),
         \A h \in Goal, k \in Job : SameMember(h, k),
         goal_of(g) = Promise!Open, goal_of(g)' = Promise!Failed,
         \A h \in Goal \ {g} : SameGoal(h),
         nextLease' = nextLease
  PROVE  Promise!Next
<1>1. Promise!Fail(g)
  BY SameMembers DEF Promise!Fail, SameLife, SameHolder, SameGoal
<1> QED
  BY <1>1 DEF Promise!Next

-----------------------------------------------------------------------------
(* Every step is promised *)

(* What the mapping reads is left alone if the tables it reads are.         *)
LEMMA Unseen ==
  ASSUME UNCHANGED <<archive, candidates>>, FactsKept,
         \A k \in Job : facts'[k] # Null => facts[k] # Null
  PROVE  /\ \A k \in Job : SameLife(k)
         /\ \A g \in Goal, k \in Job : SameMember(g, k)
<1>1. \A k \in Job : SameLife(k)
  BY DEF SameLife, life_of, FactsKept
<1>2. \A g \in Goal, k \in Job : SameMember(g, k)
  BY MembersKept DEF SameMember
<1> QED
  BY <1>1, <1>2

(* A goal whose row is the same.                                            *)
LEMMA UnseenGoal ==
  ASSUME NEW g \in Goal, goals'[g] = goals[g]
  PROVE  SameGoal(g)
  BY DEF SameGoal, goal_of

(* The clock and the row updates release holders and never replace one,     *)
(* unless a lease id is used up.                                            *)
LEMMA HoldersShrink ==
  ASSUME IInv, ControlInv, [Next]_vars, nextLease' = nextLease, NEW j \in Job
  PROVE  holder_of(j)' \in {0, holder_of(j)}
<1>1. now \in Nat /\ now' \in Nat /\ now <= now'
  BY ClockRuns
<1>2. LeaseRow(j) /\ nextLease \in Nat
  BY LeaseRows DEF IInv, TypeOK
<1>3. /\ jobs[j] # Null => jobs[j].lease_expires_at \in Nat
      /\ jobs'[j] # Null => jobs'[j].lease_expires_at \in Nat
  <2>1. TypeOK /\ TypeOK'
    BY NextInv DEF IInv
  <2>2. /\ jobs[j] # Null => jobs[j] \in JobRow
        /\ jobs'[j] # Null => jobs'[j] \in JobRow
    BY <2>1 DEF TypeOK
  <2> QED
    BY <2>2 DEF JobRow
<1> QED
  BY <1>1, <1>2, <1>3 DEF LeaseRow, KeepsHolder, holder_of

(* Renewals, the clock, polls, preparations, calls, deletions of jobs that  *)
(* are over, reschedulings.                                                 *)
LEMMA QuietPromised ==
  ASSUME IInv, ControlInv, [Next]_vars,
         \/ Rests \/ Prepare \/ \E j \in Job : Hides(j)
         \/ \E j \in Job : \E row \in JobRow : Touches(j, row)
         \/ \E c \in {call} \ {Null} : Moves(c)
  PROVE  Promise!Next
<1>1. UNCHANGED <<archive, candidates, goals, nextLease>>
  BY PrepareEffect, MovesEffect DEF Rests, Hides, Touches
<1>2. FactsKept /\ \A k \in Job : facts'[k] # Null => facts[k] # Null
  <2>1. CASE facts' = facts
    BY <2>1 DEF FactsKept
  <2>2. ASSUME NEW j \in Job, Hides(j) PROVE FactsKept /\ \A k \in Job : facts'[k] # Null => facts[k] # Null
    BY <2>2, HiddenEffect DEF Hides, IInv
  <2> QED
    BY <2>1, <2>2, PrepareEffect, MovesEffect DEF Rests, Touches
<1> QED
  BY <1>1, <1>2, Unseen, UnseenGoal, HoldersShrink, PromisedRelease

(* Polling and claiming.                                                    *)
LEMMA LeasePromised ==
  ASSUME IInv, OneHome, NEW j \in Job, NEW row \in JobRow, Leases(j, row)
  PROVE  Promise!Next
<1>1. /\ jobs[j] # Null /\ jobs[j].lease_expires_at <= now
      /\ jobs' = [jobs EXCEPT ![j] = row]
      /\ row.lease_id = nextLease /\ nextLease' = nextLease + 1
      /\ UNCHANGED <<now, facts, archive, goals, candidates>>
  BY DEF Leases
<1>2. jobs'[j] = row /\ row # Null /\ \A k \in Job \ {j} : jobs'[k] = jobs[k]
  BY <1>1, RowReplaced DEF IInv
<1>3. now \in Nat /\ nextLease \in Nat /\ jobs[j] \in JobRow
  BY <1>1, TimeAssumption DEF IInv, TypeOK
<1>4. jobs[j].lease_expires_at \in Nat
  BY <1>3 DEF JobRow
<1>5. life_of(j) = "live"
  BY <1>1 DEF OneHome, life_of
<1>6. holder_of(j) = 0 /\ holder_of(j)' \in {0, nextLease}
  BY <1>1, <1>2, <1>3, <1>4 DEF holder_of
<1>7. \A k \in Job \ {j} : SameHolder(k)
  BY <1>1, <1>2 DEF SameHolder, holder_of
<1>8. FactsKept
  BY <1>1 DEF FactsKept
<1> QED
  BY <1>1, <1>3, <1>5, <1>6, <1>7, <1>8, Unseen, UnseenGoal, PromisedLease

(* What the mapping makes of an open goal, and only of one that exists.     *)
LEMMA OpenGoal ==
  ASSUME OpenUndecided, NEW g \in Goal, goals[g] # Null
  PROVE  goal_of(g) = Promise!Open <=> goal_open(g)
  BY DEF OpenUndecided, goal_open, goal_of, Promise!Open

(* Completing, cancelling, deleting.                                        *)
LEMMA EndPromised ==
  ASSUME IInv, ControlInv, OneHome, MembersKnown, OpenUndecided, [Next]_vars,
         NEW j \in Job, NEW outcome \in Outcomes, Ends(j, outcome)
  PROVE  Promise!Next
<1>1. /\ archive'[j] # Null /\ archive'[j].status = outcome /\ jobs'[j] = Null
      /\ \A k \in Job \ {j} : archive'[k] = archive[k] /\ facts'[k] = facts[k]
      /\ FactsKept /\ \A k \in Job : facts'[k] # Null => facts[k] # Null
      /\ UNCHANGED <<now, candidates, nextLease>>
  BY EndsEffect
<1>2. \A h \in Goal : goals'[h] = IF h \in won_goals(j, outcome) THEN Won(j) ELSE goals[h]
  BY EndsEffect
<1>3. life_of(j) = "live" /\ life_of(j)' = outcome
  <2>1. jobs[j] # Null
    BY DEF Ends
  <2> QED
    BY <1>1, <2>1 DEF OneHome, life_of
<1>4. holder_of(j)' = 0
  BY <1>1 DEF holder_of
<1>5. ASSUME NEW k \in Job \ {j}
      PROVE  SameLife(k) /\ SameHolder(k)
  <2>1. SameLife(k)
    BY <1>1 DEF SameLife, life_of
  <2>2. CASE jobs[k] = Null
    <3>1. jobs'[k] = Null
      BY <2>2, EndsEffect
    <3>2. SameHolder(k)
      BY <2>2, <3>1 DEF SameHolder, holder_of
    <3> QED
      BY <2>1, <3>2
  <2>3. CASE jobs[k] # Null
    <3>1. jobs'[k] = forget_completed(jobs[k], j, now) /\ jobs'[k] # Null
      BY <2>3, EndsEffect
    <3>2. jobs[k] \in JobRow
      BY <2>3 DEF IInv, TypeOK
    <3>3. /\ KeepsHolder(jobs'[k], jobs[k])
          /\ jobs'[k].lease_expires_at = jobs[k].lease_expires_at
      BY <3>1, <3>2, ForgetCompletedFields
    <3>4. SameHolder(k)
      BY <1>1, <2>3, <3>1, <3>3 DEF SameHolder, holder_of, KeepsHolder
    <3> QED
      BY <2>1, <3>4
  <2> QED
    BY <2>1, <2>2, <2>3
<1>6. \A h \in Goal, k \in Job : SameMember(h, k)
  BY <1>1, MembersKept DEF SameMember
<1>7. ASSUME NEW h \in Goal
      PROVE  goal_of(h)' =
               IF outcome = "success" /\ goal_member(h, j) /\ goal_of(h) = Promise!Open
               THEN Promise!SucceededBy(j) ELSE goal_of(h)
  <2>1. goal_member(h, j) => goals[h] # Null
    BY DEF goal_member, MembersKnown
  <2>2. h \in won_goals(j, outcome) <=>
          outcome = "success" /\ goal_member(h, j) /\ goal_of(h) = Promise!Open
    BY <2>1, OpenGoal DEF won_goals, goal_open
  <2>3. goals'[h] = Won(j) => goal_of(h)' = Promise!SucceededBy(j)
    BY WonRow DEF goal_of, Promise!SucceededBy
  <2> QED
    BY <1>2, <2>2, <2>3 DEF goal_of
<1> QED
  BY <1>1, <1>3, <1>4, <1>5, <1>6, <1>7, PromisedEnd

(* Submitting.                                                              *)
LEMMA SubmitPromised ==
  ASSUME IInv, OneHome, MembersKnown, OpenUndecided, OpenUndecided',
         NEW req \in Submissions, NEW j \in Job, NEW g \in Goal, Submits(j, req, g)
  PROVE  Promise!Next
<1>1. /\ facts[j] = Null /\ facts'[j] # Null
      /\ \A k \in Job \ {j} : facts'[k] = facts[k]
      /\ goals[g] # Null => goals[g].state = "OPEN"
      /\ UNCHANGED <<now, archive, nextLease>>
  BY DEF Submits
<1>2. /\ jobs'[j] # Null /\ jobs'[j].lease_id = 0
      /\ \A k \in Job \ {j} : jobs'[k] = jobs[k]
  BY SubmitsEffect
<1>3. /\ goals'[g] # Null /\ goals'[g].state = "OPEN"
      /\ \A h \in Goal \ {g} : goals'[h] = goals[h]
      /\ \A h \in Goal, k \in Job :
           goal_member(h, k)' <=> goal_member(h, k) \/ (h = g /\ k = j)
  BY SubmitsMembers
<1>4. jobs[j] = Null /\ archive[j] = Null
  BY <1>1 DEF OneHome
<1>5. life_of(j) = "unknown" /\ life_of(j)' = "live"
  BY <1>1, <1>4 DEF life_of
<1>6. \A k \in Job \ {j} : SameLife(k)
  BY <1>1 DEF SameLife, life_of
<1>7. \A k \in Job : SameHolder(k)
  BY <1>1, <1>2, <1>4 DEF SameHolder, holder_of
<1>8. goal_of(g) \in {Null, Promise!Open} /\ goal_of(g)' = Promise!Open
  BY <1>1, <1>3 DEF OpenUndecided, goal_open, goal_of, Promise!Open
<1>9. \A h \in Goal \ {g} : SameGoal(h)
  BY <1>3, UnseenGoal
<1>10. /\ goal_member(g, j)'
       /\ \A h \in Goal, k \in Job : <<h, k>> # <<g, j>> => SameMember(h, k)
  BY <1>3 DEF SameMember
<1> QED
  BY <1>1, <1>5, <1>6, <1>7, <1>8, <1>9, <1>10, PromisedSubmit

(* Candidates.                                                              *)
LEMMA JoinPromised ==
  ASSUME IInv, OneHome, OpenUndecided, OpenUndecided', Joins
  PROVE  Promise!Next
<1>1. UNCHANGED <<now, facts, jobs, archive, nextLease>>
  BY GoalEffect
<1>2. PICK g \in Goal, j \in Job :
        /\ goal_open(g) /\ facts[j] # Null /\ ~goal_member(g, j)
        /\ candidates' = candidates \cup {<<g, j>>}
        /\ \A h \in Goal \ {g} : goals'[h] = goals[h]
        /\ \/ /\ archive[j] # Null /\ archive[j].status = "success"
              /\ goals'[g] # Null /\ goals'[g].state = "SUCCEEDED"
              /\ goals'[g].successful_job_id = j
           \/ /\ ~(archive[j] # Null /\ archive[j].status = "success")
              /\ goals' = goals
  BY JoinsEffect
<1>3. \A k \in Job : SameLife(k) /\ SameHolder(k)
  BY <1>1 DEF SameLife, SameHolder, life_of, holder_of
<1>4. /\ life_of(j) # "unknown"
      /\ life_of(j) = "success" <=> archive[j] # Null /\ archive[j].status = "success"
  <2>1. archive[j] # Null => archive[j] \in ArchiveRow
    BY DEF IInv, TypeOK
  <2> QED
    BY <1>2, <2>1 DEF life_of, ArchiveRow
<1>5. /\ goal_member(g, j)'
      /\ \A h \in Goal, k \in Job : <<h, k>> # <<g, j>> => SameMember(h, k)
  BY <1>1, <1>2 DEF SameMember, goal_member
<1>6. goal_of(g) = Promise!Open
  BY <1>2, OpenGoal DEF goal_open
<1>7. goal_of(g)' = IF life_of(j) = "success" THEN Promise!SucceededBy(j) ELSE goal_of(g)
  BY <1>2, <1>4 DEF goal_of, Promise!SucceededBy
<1>8. \A h \in Goal \ {g} : SameGoal(h)
  BY <1>2, UnseenGoal
<1> QED
  BY <1>1, <1>2, <1>3, <1>4, <1>5, <1>6, <1>7, <1>8, PromisedJoin

(* Failing a goal.                                                          *)
LEMMA FailPromised ==
  ASSUME IInv, OpenUndecided, Fails
  PROVE  Promise!Next
<1>1. UNCHANGED <<now, facts, jobs, archive, nextLease>>
  BY GoalEffect
<1>2. PICK g \in Goal :
        /\ goal_open(g) /\ fail_goal(g)
  BY DEF Fails, fail_goal
<1>3. /\ candidates' = candidates
      /\ close_goal(g, "FAILED", Null)
  BY <1>2 DEF fail_goal
<1>4. /\ goals'[g] # Null /\ goals'[g].state = "FAILED" /\ goals'[g].successful_job_id = Null
      /\ \A h \in Goal \ {g} : goals'[h] = goals[h]
  BY <1>3, ClosedGoal DEF IInv
<1>5. \A k \in Job : SameLife(k) /\ SameHolder(k)
  BY <1>1 DEF SameLife, SameHolder, life_of, holder_of
<1>6. \A h \in Goal, k \in Job : SameMember(h, k)
  BY <1>1, <1>3 DEF SameMember, goal_member
<1>7. goal_of(g) = Promise!Open /\ goal_of(g)' = Promise!Failed
  <2>1. goal_of(g) = Promise!Open
    BY <1>2, OpenGoal DEF goal_open
  <2>2. goal_of(g)' = Promise!Failed
    BY <1>4 DEF goal_of, Promise!Failed
  <2> QED
    BY <2>1, <2>2
<1>8. \A h \in Goal \ {g} : SameGoal(h)
  BY <1>4, UnseenGoal
<1> QED
  BY <1>1, <1>5, <1>6, <1>7, <1>8, PromisedFail

(* Every step of the scheduler is a step of JobGoals.                       *)
LEMMA StepPromised ==
  ASSUME IInv, ControlInv, OneHome, MembersKnown, OpenUndecided, OpenUndecided', [Next]_vars
  PROVE  Promise!Next
<1>1. ASSUME NEW j \in Job, NEW row \in JobRow, Leases(j, row) PROVE Promise!Next
  BY <1>1, LeasePromised
<1>2. ASSUME NEW j \in Job, NEW outcome \in Outcomes, Ends(j, outcome) PROVE Promise!Next
  BY <1>2, EndPromised
<1>3. ASSUME NEW req \in Submissions, NEW j \in Job, NEW g \in Goal, Submits(j, req, g)
      PROVE  Promise!Next
  BY <1>3, SubmitPromised
<1>4. CASE Joins
  BY <1>4, JoinPromised
<1>5. CASE Fails
  BY <1>5, FailPromised
<1>6. CASE \/ Rests \/ Prepare \/ \E j \in Job : Hides(j)
           \/ \E j \in Job : \E row \in JobRow : Touches(j, row)
           \/ \E c \in {call} \ {Null} : Moves(c)
  BY <1>6, QuietPromised
<1> QED
  BY <1>1, <1>2, <1>3, <1>4, <1>5, <1>6, StepKinds DEF Kinds

(* The scheduler implements JobGoals: no stale snapshot, late call,         *)
(* interrupted deletion or repeated submission shows a client a job that    *)
(* lives twice, two holders, or a goal out of step with its jobs.           *)
THEOREM SchedulerKeepsItsPromise == Spec => ImplementsJobGoals
<1>1. Init => Promise!Init
  <2> SUFFICES ASSUME Init PROVE Promise!Init
    OBVIOUS
  <2>1. \A j \in Job : life_of(j) = "unknown" /\ holder_of(j) = 0
    BY DEF Init, life_of, holder_of
  <2>2. \A g \in Goal : goal_of(g) = Null /\ \A j \in Job : ~goal_member(g, j)
    BY DEF Init, goal_of, goal_member
  <2>3. nextLease - 1 = 0
    BY DEF Init
  <2> QED
    BY <2>1, <2>2, <2>3 DEF Promise!Init
<1>2. /\ IInv /\ ControlInv /\ OneHome /\ MembersKnown /\ OpenUndecided /\ OpenUndecided'
      /\ [Next]_vars
      => [Promise!Next]_Promise!vars
  BY StepPromised
<1> QED
  BY <1>1, <1>2, Control, KnownMembers, OpenGoalsNameNobody, PTL
  DEF Spec, ImplementsJobGoals, Promise!Spec

-----------------------------------------------------------------------------
(* No wait is hopeless *)

(* A job with a pending wait that is not overdue, an open goal with an      *)
(* active member: others decide them.                                       *)
Waiting(t) ==
  IF t.kind = "job"
  THEN \E i \in WaitId : Pending(waits[t.id][i]) /\ waits[t.id][i].deadline > now
  ELSE goal_open(t.id) /\ \E j \in Job : goal_member(t.id, j) /\ jobs[j] # Null

(* An active job that waits for nothing, an open goal without an active     *)
(* member: a worker or a client decides them.                               *)
Free(t) ==
  ~Waiting(t) /\ IF t.kind = "job" THEN jobs[t.id] # Null ELSE goal_open(t.id)

(* S holds whatever its members wait for, directly or not.                  *)
FollowsEdges(S) == \A n \in S, m \in Target : edge(n, m) => m \in S

WaitsHaveAnEnd ==
  \A j \in Job, S \in SUBSET Target :
    Waiting(JobTarget(j)) /\ JobTarget(j) \in S /\ FollowsEdges(S) => \E t \in S : Free(t)

(* A job that waits has an edge to something that is undecided.             *)
LEMMA WaitingJobEdge ==
  ASSUME IInv, OneHome, RowsJustified, PendingWaitCurrent, NoLostWakeup,
         NEW n \in Target, n.kind = "job", Waiting(n)
  PROVE  \E m \in Target : edge(n, m) /\ (Waiting(m) \/ Free(m))
<1>1. n.id \in Job
  BY DEF Target
<1>2. PICK i \in WaitId : Pending(waits[n.id][i]) /\ waits[n.id][i].deadline > now
  BY DEF Waiting
<1> DEFINE w == waits[n.id][i]
<1>3. w \in WaitRow /\ w # Null /\ w.state = "PENDING"
  BY <1>1, <1>2 DEF IInv, TypeOK, Pending
<1>4. PICK k \in DOMAIN w.deps : w.deps[k].state = "PENDING"
  BY <1>1, <1>3 DEF RowsJustified, RowJustified, StateFollows
<1> DEFINE m == w.descriptor[k].target
<1>5. m \in Target
  BY <1>3, <1>4, WaitRowParts, DescriptorType DEF Dependency
<1>6. [job |-> n.id, wait |-> i, target |-> m] \in targets
  BY <1>1, <1>3, <1>4, <1>5 DEF IInv, TargetsExact, TargetRow, pending_target
<1>7. IF m.kind = "job" THEN facts[m.id] # Null /\ archive[m.id] = Null ELSE goal_open(m.id)
  BY <1>1, <1>3, <1>4 DEF NoLostWakeup
<1>8. jobs[n.id] # Null
  BY <1>1, <1>3 DEF PendingWaitCurrent
<1> HIDE DEF m, w
<1>9. edge(n, m)
  BY <1>1, <1>2, <1>6, <1>8 DEF edge, OneHome
<1>10. Waiting(m) \/ Free(m)
  BY <1>5, <1>7 DEF Free, OneHome, Target
<1> QED
  BY <1>5, <1>9, <1>10

(* A goal with an active member has an edge to it.                          *)
LEMMA WaitingGoalEdge ==
  ASSUME OneHome, NEW n \in Target, n.kind = "goal", Waiting(n)
  PROVE  \E m \in Target : edge(n, m) /\ (Waiting(m) \/ Free(m))
<1>1. PICK j \in Job : goal_open(n.id) /\ goal_member(n.id, j) /\ jobs[j] # Null
  BY DEF Waiting
<1>2. JobTarget(j) \in Target /\ JobTarget(j).kind = "job" /\ JobTarget(j).id = j
  BY DEF JobTarget, Target
<1>3. edge(n, JobTarget(j))
  BY <1>1, <1>2 DEF edge, OneHome
<1>4. Waiting(JobTarget(j)) \/ Free(JobTarget(j))
  BY <1>1, <1>2 DEF Free
<1> QED
  BY <1>2, <1>3, <1>4

(* If nothing in S is free, the members of S that wait for each other are a *)
(* set of nodes that each have a successor in it.                           *)
LEMMA SomebodyIsFree ==
  ASSUME IInv, OneHome, RowsJustified, PendingWaitCurrent, NoLostWakeup, Acyclic
  PROVE  WaitsHaveAnEnd
<1> SUFFICES ASSUME NEW j \in Job, NEW S \in SUBSET Target, Waiting(JobTarget(j)),
                    JobTarget(j) \in S, FollowsEdges(S), ~\E t \in S : Free(t)
             PROVE  FALSE
  BY DEF WaitsHaveAnEnd
<1> DEFINE Held == {n \in S : Waiting(n)}
<1>1. ASSUME NEW n \in Held PROVE \E m \in Held : edge(n, m)
  <2>1. n \in Target /\ n.kind \in {"job", "goal"}
    BY DEF Target
  <2>2. PICK m \in Target : edge(n, m) /\ (Waiting(m) \/ Free(m))
    BY <2>1, WaitingJobEdge, WaitingGoalEdge
  <2> QED
    BY <2>2 DEF FollowsEdges
<1>2. closed(Held)
  BY <1>1 DEF closed
<1> QED
  BY <1>2 DEF Acyclic

(* Whatever a job waits for, directly or through other jobs and goals, one  *)
(* of those is not waiting itself: an active job that only needs a worker,  *)
(* or an open goal whose members have all ended, which a client has to fail *)
(* or give a candidate.  No wait hangs on its own circle, and none is left  *)
(* pending when all it waits for is decided.  (Plain wait_for lists are not *)
(* part of the graph, here as in _check_goal_cycle.)                        *)
THEOREM NoWaitIsHopeless == Spec => []WaitsHaveAnEnd
  BY SomebodyIsFree, Invariance, AllRowsJustified, PendingWaitsAreCurrent,
     WakeupsAreNotLost, NobodyWaitsInACircle, PTL

-----------------------------------------------------------------------------
(* Overdue waits *)

(* A wait that is overdue stays so until it is decided, and a poll decides  *)
(* it.                                                                      *)
OverdueWaitsEnd ==
  [][\A j \in Job, i \in WaitId : due(j, i) =>
       /\ due(j, i)' \/ ~Pending(waits'[j][i])
       /\ (\E w \in Worker : poll_expire(w)) => ~Pending(waits'[j][i])]_vars

(* A wait evaluated after its deadline is closed.                           *)
LEMMA LateEvaluation ==
  ASSUME NEW w \in WaitRow, NEW t \in Nat, NEW gs, NEW ar, w.state = "PENDING", w.deadline <= t
  PROVE  evaluate_wait(w, t, gs, ar).state = "TIMED_OUT"
<1>1. evaluate_wait(w, t, gs, ar) = close_wait(w, "TIMED_OUT")
  BY WaitRowParts, TimeAssumption DEF evaluate_wait, Time, Infinity
<1> QED
  BY <1>1, CloseWaitType DEF WaitState

(* What makes timed waits end: time does not run back, deadlines are not    *)
(* moved, and the next poll of any worker closes every wait that is due,    *)
(* before it looks for work.                                                *)
THEOREM PollsEndOverdueWaits == Spec => OverdueWaitsEnd
<1> DEFINE Final ==
      \A j \in Job, i \in WaitId : due(j, i) =>
        /\ due(j, i)' \/ ~Pending(waits'[j][i])
        /\ (\E w \in Worker : poll_expire(w)) => ~Pending(waits'[j][i])
<1>1. IInv /\ ControlInv /\ [Next]_vars => [Final]_vars
  <2> SUFFICES ASSUME IInv, ControlInv, [Next]_vars, NEW j \in Job, NEW i \in WaitId, due(j, i)
               PROVE  /\ due(j, i)' \/ ~Pending(waits'[j][i])
                      /\ (\E w \in Worker : poll_expire(w)) => ~Pending(waits'[j][i])
    OBVIOUS
  <2>1. /\ waits[j][i] \in WaitRow /\ waits[j][i] # Null /\ waits[j][i].state = "PENDING"
        /\ waits[j][i].deadline <= now
    BY DEF due, IInv, TypeOK
  <2>2. waits[j][i].deadline \in Nat
    BY <2>1, WaitRowParts, TimeAssumption DEF Time, Infinity
  <2>3. now \in Nat /\ now' \in Nat /\ now <= now'
    BY ClockRuns
  <2>4. due(j, i)' \/ ~Pending(waits'[j][i])
    <3>1. waits'[j][i].deadline = waits[j][i].deadline
      BY <2>1, NextPreserves DEF Preserves, WaitsFollow, WaitStep, Kept
    <3> QED
      BY <2>1, <2>2, <2>3, <3>1 DEF due, Pending
  <2>5. ASSUME NEW w \in Worker, poll_expire(w) PROVE ~Pending(waits'[j][i])
    <3>1. waits'[j][i] = evaluate_wait(waits[j][i], now, goals, archive)
      BY <2>5 DEF poll_expire, expire_goal_waits
    <3> QED
      BY <2>1, <2>3, <3>1, LateEvaluation DEF Pending
  <2> QED
    BY <2>4, <2>5
<1> HIDE DEF Final
<1>2. Spec => [][Final]_vars
  BY <1>1, Control, PTL DEF Spec
<1> QED
  BY <1>2 DEF OverdueWaitsEnd, Final

-----------------------------------------------------------------------------
(* Preparations that come too late *)

(* A job is prepared but not submitted, and its goal is closed.             *)
Orphaned(j) ==
  /\ preparations[j] # Null /\ facts[j] = Null
  /\ goals[preparations[j].goal] # Null /\ ~goal_open(preparations[j].goal)

OrphansStay == [][\A j \in Job : Orphaned(j) => Orphaned(j)']_vars

(* prepare_job finds the preparation of the job, and only completes it.     *)
LEMMA OrphanPrepared ==
  ASSUME IInv, Prepare, NEW j \in Job, preparations[j] # Null
  PROVE  preparations'[j] # Null /\ preparations'[j].goal = preparations[j].goal
<1>1. PICK req \in Preparations, k \in Job :
        (\E g \in Goal : prepare_job(req, k, g)) \/ reprepare_job(req, k)
  BY DEF Prepare
<1>2. ASSUME NEW g \in Goal, prepare_job(req, k, g) PROVE preparations'[j] = preparations[j]
  <2>1. preparations[k] = Null
    BY <1>2 DEF prepare_job
  <2> QED
    BY <1>2, <2>1 DEF prepare_job, IInv, TypeOK
<1>3. ASSUME reprepare_job(req, k), k = j
      PROVE  preparations'[j] # Null /\ preparations'[j].goal = preparations[j].goal
  <2> DEFINE r == IF req.request # Null THEN req.request ELSE preparations[j].request
             p == [preparations[j] EXCEPT !.request = r]
  <2>1. preparations' = [preparations EXCEPT ![j] = p]
    BY <1>3 DEF reprepare_job
  <2>2. preparations[j] \in Preparation /\ r \in Request \cup {Null}
    BY InputAssumption DEF IInv, TypeOK, Preparation, PrepareRequest
  <2> HIDE DEF r
  <2>3. p \in Preparation /\ p.goal = preparations[j].goal
    BY <2>2 DEF Preparation
  <2> HIDE DEF p
  <2>4. preparations'[j] = p
    BY <2>1 DEF IInv, TypeOK
  <2> QED
    BY <2>3, <2>4, FactAssumption
<1>4. ASSUME reprepare_job(req, k), k # j PROVE preparations'[j] = preparations[j]
  BY <1>4 DEF reprepare_job, IInv, TypeOK
<1> QED
  BY <1>1, <1>2, <1>3, <1>4

(* A submission for the goal of a preparation needs the goal to be open, or *)
(* to be new.                                                               *)
LEMMA OrphanKept ==
  ASSUME IInv, NEW req \in Submissions, NEW k \in Job, NEW g \in Goal, Submits(k, req, g),
         NEW j \in Job, Orphaned(j)
  PROVE  preparations'[j] = preparations[j] /\ facts'[j] = Null
<1>1. k # j
  BY DEF Submits, Orphaned, goal_open
<1>2. facts'[j] = Null
  BY <1>1 DEF Submits, Orphaned
<1>3. preparations'[j] = preparations[j]
  BY <1>1 DEF Submits, IInv, TypeOK
<1> QED
  BY <1>2, <1>3

(* No step submits an orphaned job or binds its preparation to another      *)
(* goal.                                                                    *)
LEMMA OrphanStep ==
  ASSUME IInv, ControlInv, OneHome, [Next]_vars, NEW j \in Job, Orphaned(j)
  PROVE  Orphaned(j)'
<1> DEFINE g == preparations[j].goal
<1>1. g \in Goal
  BY DEF Orphaned, IInv, TypeOK, Preparation
<1>2. goals'[g] # Null /\ goals'[g].state # "OPEN"
  BY <1>1, HistoryStep DEF Orphaned, History, GoalFollows, goal_open
<1>3. ASSUME preparations'[j] # Null, preparations'[j].goal = g, facts'[j] = Null
      PROVE  Orphaned(j)'
  BY <1>2, <1>3 DEF Orphaned, goal_open
<1>4. CASE Quiet \/ Joins \/ Fails \/ \E c \in {call} \ {Null} : Moves(c)
  <2>1. UNCHANGED <<facts, preparations>>
    BY <1>4, GoalEffect, MovesEffect DEF Quiet
  <2> QED
    BY <1>3, <2>1 DEF Orphaned
<1>5. ASSUME NEW k \in Job, Hides(k) \/ \E outcome \in Outcomes : Ends(k, outcome)
      PROVE  Orphaned(j)'
  <2>1. /\ \A m \in Job : facts'[m] # Null => facts[m] # Null
        /\ preparations' = preparations
    BY <1>5, HiddenEffect, EndsEffect DEF Hides, IInv
  <2> QED
    BY <1>3, <2>1 DEF Orphaned
<1>6. CASE Prepare
  BY <1>3, <1>6, OrphanPrepared, PrepareEffect DEF Orphaned
<1>7. ASSUME NEW req \in Submissions, NEW k \in Job, NEW h \in Goal, Submits(k, req, h)
      PROVE  Orphaned(j)'
  BY <1>3, <1>7, OrphanKept DEF Orphaned
<1> QED
  BY <1>4, <1>5, <1>6, <1>7, KindCases

(* A preparation whose goal was closed before its job was submitted can     *)
(* never be published, whatever the client sends: the goal it reserved is   *)
(* the only one the job may get, and it is not opened again.                *)
THEOREM OrphansAreNeverSubmitted == Spec => OrphansStay
<1> DEFINE Final == \A j \in Job : Orphaned(j) => Orphaned(j)'
<1>1. IInv /\ ControlInv /\ OneHome /\ [Next]_vars => [Final]_vars
  BY OrphanStep
<1> HIDE DEF Final
<1>2. Spec => [][Final]_vars
  BY <1>1, Control, EveryJobHasOneHome, PTL DEF Spec
<1> QED
  BY <1>2 DEF OrphansStay, Final

-----------------------------------------------------------------------------
(* What can happen between the two steps of a call *)

(* A call under a lease finds its job active, still with that lease or with *)
(* a later one.                                                             *)
OvertakenByLeasesOnly ==
  call # Null /\ call.lease # 0 =>
    /\ jobs[call.job] # Null
    /\ \/ /\ jobs[call.job].lease_id = call.lease
          /\ jobs[call.job].lease_worker_id = call.worker
       \/ jobs[call.job].lease_id > call.lease

(* Who reads a row without locking it sees all of it but the end of a       *)
(* renewed lease.                                                           *)
LEMMA ReadRow ==
  ASSUME TypeOK, NEW j \in Job
  PROVE  /\ read_row(j) = Null <=> jobs[j] = Null
         /\ jobs[j] # Null =>
              /\ read_row(j) \in JobRow
              /\ KeepsWaiting(read_row(j), jobs[j]) /\ KeepsHolder(read_row(j), jobs[j])
<1>1. CASE jobs[j] = Null \/ renewal[j] = Null
  BY <1>1 DEF read_row, TypeOK, KeepsWaiting, KeepsHolder
<1>2. CASE jobs[j] # Null /\ renewal[j] # Null
  <2>1. jobs[j] \in JobRow /\ renewal[j] \in Nat
    BY <1>2 DEF TypeOK
  <2> DEFINE t == renewal[j]
             row == [jobs[j] EXCEPT !.lease_expires_at = t]
  <2>2. read_row(j) = row
    BY <1>2 DEF read_row
  <2>3. row \in JobRow /\ KeepsWaiting(row, jobs[j]) /\ KeepsHolder(row, jobs[j])
    BY <2>1, RenewedRowType, RenewedRowFields
  <2>4. row # Null
    BY <2>3, JobRowAssumption
  <2> QED
    BY <1>2, <2>2, <2>3, <2>4
<1> QED
  BY <1>1, <1>2

(* A call is let through under the lease that the row carries.              *)
LEMMA CallOpened ==
  ASSUME TypeOK, [Next]_vars, call = Null, call' # Null, call' \in Call
  PROVE  /\ jobs' = jobs
         /\ call'.lease # 0 => /\ jobs[call'.job] # Null
                               /\ jobs[call'.job].lease_id = call'.lease
                               /\ jobs[call'.job].lease_worker_id = call'.worker
<1>1. ASSUME NEW c, lock_job_for_status(c)
      PROVE  /\ jobs' = jobs
             /\ call'.lease # 0 => validate_native_lease(call'.job, call'.lease, call'.worker)
  BY <1>1 DEF lock_job_for_status, tables
<1>2. Complete \/ Reschedule => \E c : lock_job_for_status(c)
  BY DEF Complete, complete_native_job, complete_native_unheld_job, Reschedule,
         reschedule_native_job
<1>3. ASSUME Tick \/ Prepare \/ Submit \/ (\E j \in Job : commit_renewal(j)) \/ UNCHANGED vars
      PROVE  FALSE
  BY <1>3 DEF Tick, Prepare, prepare_job, reprepare_job, Submit, submit_native_job,
              commit_renewal, vars
<1>4. ASSUME Claim \/ Renew \/ ClearCrashConcern PROVE FALSE
  BY <1>4 DEF Claim, claim_native_task, Renew, renew_native_lease, ClearCrashConcern,
              clear_crash_concern
<1>5. ASSUME NEW w \in Worker, Poll(w) PROVE FALSE
  BY <1>5 DEF Poll, poll_expire, poll_snapshot, poll_none, poll_lock
<1>6. ASSUME Cancel \/ Goals \/ Delete \/ \E j \in deleting : delete_one_job(j) PROVE FALSE
  BY <1>6 DEF Cancel, cancel_native_job, Goals, add_goal_candidate, fail_goal, Delete,
              delete_native_jobs, delete_one_job
<1>7. ~EndCall
  BY DEF EndCall
<1>8. \E c : lock_job_for_status(c)
  BY <1>2, <1>3, <1>4, <1>5, <1>6, <1>7 DEF Next
<1>9. call'.job \in Job
  BY DEF Call
<1> QED
  BY <1>1, <1>8, <1>9, ReadRow DEF validate_native_lease, lease_valid, KeepsHolder

(* While a call is open no row loses its lease: only rows are leased, or    *)
(* their leases renewed.                                                    *)
LEMMA LeaseStays ==
  ASSUME IInv, LeaseInv, [Next]_vars, call # Null, ~EndCall, NEW j \in Job, jobs[j] # Null
  PROVE  \/ jobs'[j].lease_id = nextLease
         \/ /\ jobs'[j].lease_id = jobs[j].lease_id
            /\ jobs'[j].lease_worker_id = jobs[j].lease_worker_id
<1>1. ASSUME NEW k \in Job, NEW row, jobs' = [jobs EXCEPT ![k] = row],
             \/ row.lease_id = nextLease
             \/ /\ row.lease_id = jobs[k].lease_id
                /\ row.lease_worker_id = jobs[k].lease_worker_id
      PROVE  \/ jobs'[j].lease_id = nextLease
             \/ /\ jobs'[j].lease_id = jobs[j].lease_id
                /\ jobs'[j].lease_worker_id = jobs[j].lease_worker_id
  BY <1>1 DEF IInv, TypeOK
<1>2. CASE jobs' = jobs
  BY <1>2
<1>3. ASSUME Tick \/ (\E k \in Job : commit_renewal(k)) \/ UNCHANGED vars PROVE jobs' = jobs
  BY <1>3 DEF Tick, commit_renewal, tables, vars
<1>4. ASSUME Prepare \/ Submit \/ Complete \/ Reschedule \/ Cancel \/ Goals \/ Delete PROVE FALSE
  <2>1. ~goal_lock_free
    BY DEF goal_lock_free
  <2>2. ~Prepare
    BY <2>1 DEF Prepare, prepare_job, reprepare_job
  <2>3. ~Submit
    BY <2>1 DEF Submit, submit_native_job
  <2>4. ~Complete /\ ~Reschedule
    BY <2>1 DEF Complete, complete_native_job, complete_native_unheld_job, Reschedule,
                reschedule_native_job, lock_job_for_status
  <2>5. ~Cancel /\ ~Goals /\ ~Delete
    BY <2>1 DEF Cancel, cancel_native_job, Goals, add_goal_candidate, fail_goal, Delete,
                delete_native_jobs
  <2> QED
    BY <1>4, <2>2, <2>3, <2>4, <2>5
<1>5. ~\E k \in deleting : delete_one_job(k)
  BY DEF IInv, CallInv
<1>6. ASSUME NEW w \in Worker, Poll(w), jobs' # jobs
      PROVE  \E k \in Job : \E row : jobs' = [jobs EXCEPT ![k] = row] /\ row.lease_id = nextLease
  <2>1. PICK k \in Job : poll_lock(w, k)
    BY <1>6 DEF Poll, poll_expire, poll_snapshot, poll_none, tables
  <2>2. jobs[k] \in JobRow
    BY <2>1 DEF poll_lock, pollable, IInv, TypeOK
  <2> DEFINE row == poll_lease(jobs[k], poll[w].v_now, nextLease, w, LeaseSeconds)
  <2>3. row.lease_id = nextLease
    BY <2>2, PollLeaseFields
  <2>4. jobs' = [jobs EXCEPT ![k] = row]
    BY <2>1 DEF poll_lock
  <2> HIDE DEF row
  <2> QED
    BY <2>3, <2>4
<1>7. ASSUME Claim
      PROVE  \E k \in Job : \E row : jobs' = [jobs EXCEPT ![k] = row] /\ row.lease_id = nextLease
  <2>1. PICK w \in Worker, req \in Reschedules : claim_native_task(w, req.job, req.route)
    BY <1>7 DEF Claim
  <2>2. req.job \in Job
    BY InputAssumption DEF RescheduleRequest
  <2>3. jobs[req.job] \in JobRow
    BY <2>1, <2>2 DEF claim_native_task, IInv, TypeOK
  <2> DEFINE row == claim_lease(jobs[req.job], now, nextLease, w, LeaseSeconds)
  <2>4. row.lease_id = nextLease
    BY <2>3, ClaimLeaseFields
  <2>5. jobs' = [jobs EXCEPT ![req.job] = row]
    BY <2>1 DEF claim_native_task
  <2> HIDE DEF row
  <2> QED
    BY <2>2, <2>4, <2>5
<1>8. ASSUME Renew \/ ClearCrashConcern
      PROVE  \E k \in Job : \E row :
               /\ jobs' = [jobs EXCEPT ![k] = row]
               /\ row.lease_id = jobs[k].lease_id
               /\ row.lease_worker_id = jobs[k].lease_worker_id
  <2>1. CASE Renew
    <3>1. PICK k \in Job :
            /\ jobs[k] # Null
            /\ jobs' = [jobs EXCEPT ![k].lease_expires_at = now + LeaseSeconds]
      BY <2>1 DEF Renew, renew_native_lease, extend_lease, extend_allowed
    <3>2. jobs[k] \in JobRow
      BY <3>1 DEF IInv, TypeOK
    <3> DEFINE row == [jobs[k] EXCEPT !.lease_expires_at = now + LeaseSeconds]
    <3>3. row.lease_id = jobs[k].lease_id /\ row.lease_worker_id = jobs[k].lease_worker_id
      BY <3>2, RenewedRowFields DEF KeepsHolder
    <3>4. jobs' = [jobs EXCEPT ![k] = row]
      BY <3>1
    <3> HIDE DEF row
    <3> QED
      BY <3>3, <3>4
  <2>2. CASE ClearCrashConcern
    <3>1. PICK k \in Job :
            /\ jobs[k] # Null
            /\ jobs' = [jobs EXCEPT ![k].consecutive_expirations = 0]
      BY <2>2 DEF ClearCrashConcern, clear_crash_concern
    <3>2. jobs[k] \in JobRow
      BY <3>1 DEF IInv, TypeOK
    <3> DEFINE row == [jobs[k] EXCEPT !.consecutive_expirations = 0]
    <3>3. row.lease_id = jobs[k].lease_id /\ row.lease_worker_id = jobs[k].lease_worker_id
      BY <3>2, ClearedRowFields DEF KeepsHolder
    <3>4. jobs' = [jobs EXCEPT ![k] = row]
      BY <3>1
    <3> HIDE DEF row
    <3> QED
      BY <3>3, <3>4
  <2> QED
    BY <1>8, <2>1, <2>2
<1> QED
  BY <1>1, <1>2, <1>3, <1>4, <1>5, <1>6, <1>7, <1>8 DEF Next

(* Whatever happens between the check of a call under a lease and its       *)
(* effect, its job is not ended, rescheduled or released by anybody else:   *)
(* at most the lease expires and a later one is given out.  This bounds     *)
(* what complete_native_job, which does not look at the row again, can do   *)
(* too late.                                                                *)
THEOREM CallsAreOvertakenByLeasesOnly == Spec => []OvertakenByLeasesOnly
<1>1. Init => OvertakenByLeasesOnly
  BY DEF Init, OvertakenByLeasesOnly
<1>2. ASSUME IInv, ControlInv, LeaseInv, OvertakenByLeasesOnly, [Next]_vars
      PROVE  OvertakenByLeasesOnly'
  <2> SUFFICES ASSUME call' # Null, call'.lease # 0
               PROVE  /\ jobs'[call'.job] # Null
                      /\ \/ /\ jobs'[call'.job].lease_id = call'.lease
                            /\ jobs'[call'.job].lease_worker_id = call'.worker
                         \/ jobs'[call'.job].lease_id > call'.lease
    BY DEF OvertakenByLeasesOnly
  <2>1. CASE call = Null
    <3>1. TypeOK /\ call' \in Call
      BY <1>2, NextInv DEF IInv, TypeOK
    <3> QED
      BY <1>2, <2>1, <3>1, CallOpened
  <2>2. CASE call # Null
    <3>1. ~EndCall
      BY DEF EndCall, complete_native_locked_job, reschedule_locked_job, roll_back_call
    <3>2. call' = call
      BY <1>2, <2>2, <3>1, CallKept
    <3> DEFINE j == call.job
    <3>3. /\ call \in Call /\ j \in Job /\ jobs[j] # Null /\ jobs'[j] # Null
      BY <1>2, <2>2, <3>2, NextInv DEF IInv, TypeOK, CallInv, Call
    <3>4. /\ jobs[j].lease_id < nextLease /\ nextLease \in Nat
          /\ jobs[j].lease_id \in Nat /\ call.lease \in Nat
      BY <1>2, <3>3, LeaseParts DEF LeaseInv, IInv, TypeOK, Call
    <3>5. \/ jobs'[j].lease_id = nextLease
          \/ /\ jobs'[j].lease_id = jobs[j].lease_id
             /\ jobs'[j].lease_worker_id = jobs[j].lease_worker_id
      BY <1>2, <2>2, <3>1, <3>3, LeaseStays
    <3>6. \/ jobs[j].lease_id = call.lease /\ jobs[j].lease_worker_id = call.worker
          \/ jobs[j].lease_id > call.lease
      BY <1>2, <2>2, <3>2 DEF OvertakenByLeasesOnly
    <3> QED
      BY <3>2, <3>3, <3>4, <3>5, <3>6
  <2> QED
    BY <2>1, <2>2
<1>3. IInv /\ ControlInv /\ LeaseInv /\ OvertakenByLeasesOnly /\ [Next]_vars
        => OvertakenByLeasesOnly'
  BY <1>2
<1> QED
  BY <1>1, <1>3, Control, LeasesInOrder, PTL DEF Spec

=============================================================================
