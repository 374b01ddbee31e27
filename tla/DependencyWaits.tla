-------------------------- MODULE DependencyWaits --------------------------
(***************************************************************************)
(* Structured dependency waits of pgjobdb: what a job may wait for, the    *)
(* stored outcome of one wait, and the functions of pgjobdb.sql that       *)
(* compute a new outcome.  Everything here is a pure operator; the tables  *)
(* (goals, jobs_archive) are passed in, so that a caller can evaluate a    *)
(* wait against the tables its own transaction has just updated.           *)
(***************************************************************************)
EXTENDS Integers, Sequences

CONSTANTS
  Job,          \* job ids of the one tenant that is modelled
  Goal,         \* goal ids
  WaitId,       \* wait ids; the id "submission" is reserved for submit_native_job
  Descriptors,  \* the dependency lists that callers may send
  Null,         \* SQL NULL / no such row
  MaxTime       \* bound: the clock stops here

(* The clock never reaches Infinity: a deadline or expiry of Infinity is    *)
(* SQL's NULL deadline, or the timestamp 'infinity'.                        *)
Infinity == MaxTime + 1
Time == 0 .. Infinity

(* dependency_targets.target_kind / target_id, and the nodes of the         *)
(* dependency graph.                                                        *)
Target == [kind : {"job"}, id : Job] \cup [kind : {"goal"}, id : Goal]
JobTarget(j) == [kind |-> "job", id |-> j]
GoalTarget(g) == [kind |-> "goal", id |-> g]

Dependency == [target : Target, condition : {"success", "complete"}]

(* _validate_dependencies: the targets are distinct, and a goal can only be *)
(* awaited for success.                                                     *)
validate_dependencies(deps) ==
  /\ \A i \in DOMAIN deps :
       deps[i].target.kind = "goal" => deps[i].condition = "success"
  /\ \A i, k \in DOMAIN deps : deps[i].target = deps[k].target => i = k

ASSUME NullAssumption ==
  Null \notin Job /\ Null \notin Goal /\ Null \notin WaitId

ASSUME TimeAssumption == MaxTime \in Nat

ASSUME DescriptorAssumption ==
  \A d \in Descriptors :
    /\ d \in Seq(Dependency) /\ d # <<>>
    /\ validate_dependencies(d)

-----------------------------------------------------------------------------
(* Rows *)

DependencyOutcome ==
  [state : {"PENDING", "SATISFIED", "FAILED", "CANCELLED"}, by : Job \cup {Null}]

WaitState == {"PENDING", "SATISFIED", "FAILED", "TIMED_OUT", "CANCELLED"}

WaitRow ==
  UNION { [descriptor : {d}, deadline : Time, state : WaitState,
           deps : [DOMAIN d -> DependencyOutcome]] : d \in Descriptors }

GoalRow ==
  [state : {"OPEN", "SUCCEEDED", "FAILED"}, successful_job_id : Job \cup {Null}]

ArchiveRow ==
  [status : {"success", "failed_app", "failed_system", "failed_timeout", "cancelled"}]

ASSUME RowAssumption == Null \notin WaitRow /\ Null \notin GoalRow /\ Null \notin ArchiveRow

(* dependency_targets: one row per pending dependency of a pending wait.    *)
TargetRow == [job : Job, wait : WaitId, target : Target]

-----------------------------------------------------------------------------
(* Functions *)

(* _close_wait: a terminal state for the wait; dependencies that were never *)
(* decided are CANCELLED, decided ones keep their outcome.                  *)
close_wait(w, state) ==
  [w EXCEPT !.state = state,
            !.deps = [i \in DOMAIN w.deps |->
                        IF w.deps[i].state = "PENDING"
                        THEN [state |-> "CANCELLED", by |-> Null]
                        ELSE w.deps[i]]]

(* Mutant: the archived job's status is not looked at.                      *)
job_outcome_any_end(dep, old, archive) ==
  IF archive[dep.target.id] = Null THEN old
  ELSE [state |-> "SATISFIED", by |-> dep.target.id]

(* An undecided dependency on a job.                                        *)
job_outcome(dep, old, archive) ==
  LET id == dep.target.id IN
  IF archive[id] = Null THEN old
  ELSE IF archive[id].status = "success" \/ dep.condition = "complete"
  THEN [state |-> "SATISFIED", by |-> id]
  ELSE [state |-> "FAILED", by |-> Null]

(* An undecided dependency on a goal.                                       *)
goal_outcome(dep, old, goals) ==
  LET id == dep.target.id IN
  CASE goals[id].state = "SUCCEEDED" ->
         [state |-> "SATISFIED", by |-> goals[id].successful_job_id]
    [] goals[id].state = "FAILED" -> [state |-> "FAILED", by |-> Null]
    [] OTHER -> old

(* One dependency of _evaluate_wait's loop.                                 *)
evaluate_dependency(dep, old, goals, archive) ==
  IF old.state # "PENDING" THEN old
  ELSE IF dep.target.kind = "goal" THEN goal_outcome(dep, old, goals)
  ELSE job_outcome(dep, old, archive)

(* Mutant: a wait whose dependencies are all satisfied is never too late.   *)
evaluate_wait_targets_first(w, t, goals, archive) ==
  LET new == [i \in DOMAIN w.deps |->
                evaluate_dependency(w.descriptor[i], w.deps[i], goals, archive)]
  IN CASE w.state # "PENDING" -> w
       [] w.state = "PENDING" /\ \A i \in DOMAIN w.deps : new[i].state = "SATISFIED" ->
            [w EXCEPT !.deps = new, !.state = "SATISFIED"]
       [] OTHER -> IF w.deadline <= t THEN close_wait(w, "TIMED_OUT") ELSE [w EXCEPT !.deps = new]

(* _evaluate_wait.  The deadline is looked at before any dependency; the    *)
(* first dependency found failed ends the loop, so the later ones are left  *)
(* undecided and close_wait cancels them.                                   *)
evaluate_wait(w, t, goals, archive) ==
  LET new == [i \in DOMAIN w.deps |->
                evaluate_dependency(w.descriptor[i], w.deps[i], goals, archive)]
      failed == {i \in DOMAIN w.deps :
                   w.deps[i].state = "PENDING" /\ new[i].state = "FAILED"}
      first == CHOOSE i \in failed : \A k \in failed : i <= k
  IN CASE w.state # "PENDING" -> w
       [] w.state = "PENDING" /\ w.deadline <= t -> close_wait(w, "TIMED_OUT")
       [] w.state = "PENDING" /\ w.deadline > t /\ failed # {} ->
            close_wait([w EXCEPT !.deps = [i \in DOMAIN w.deps |->
                                             IF i <= first THEN new[i] ELSE w.deps[i]]],
                       "FAILED")
       [] w.state = "PENDING" /\ w.deadline > t /\ failed = {} ->
            [w EXCEPT !.deps = new,
                      !.state = IF \E i \in DOMAIN w.deps : new[i].state = "PENDING"
                                THEN "PENDING" ELSE "SATISFIED"]

(* The outcome _register_wait inserts before it evaluates it.               *)
new_wait(descriptor, deadline) ==
  [descriptor |-> descriptor, deadline |-> deadline, state |-> "PENDING",
   deps |-> [i \in DOMAIN descriptor |-> [state |-> "PENDING", by |-> Null]]]

(* _save_wait's INSERT loop: the row t belongs in dependency_targets when   *)
(* the waits are ws.                                                        *)
pending_target(ws, t) ==
  /\ ws[t.job][t.wait] # Null
  /\ ws[t.job][t.wait].state = "PENDING"
  /\ \E i \in DOMAIN ws[t.job][t.wait].deps :
       /\ ws[t.job][t.wait].deps[i].state = "PENDING"
       /\ ws[t.job][t.wait].descriptor[i].target = t.target

=============================================================================
