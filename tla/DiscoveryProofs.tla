-------------------------- MODULE DiscoveryProofs --------------------------
(***************************************************************************)
(* Proofs about Discovery: a client that only reads never changes what the *)
(* scheduler does, and what it is shown of waits, goals and acquirable     *)
(* jobs is what the evaluated rows say, for any number of rows and pages.  *)
(***************************************************************************)
EXTENDS Discovery, SchedulerProofs, Pages

-----------------------------------------------------------------------------
(* Reading a wait *)

(* A pending wait evaluated: the deadline comes first, a result that is     *)
(* still pending awaits something, and if nothing has been decided since,   *)
(* the stored outcomes are the result.                                      *)
LEMMA EvaluateWaitCases ==
  ASSUME NEW gs \in GoalTable, NEW ar \in ArchiveTable, NEW t \in Nat,
         NEW w \in WaitRow, GoalsKnown(w, gs), w.state = "PENDING"
  PROVE  LET v == evaluate_wait(w, t, gs, ar) IN
         /\ w.deadline <= t => v = close_wait(w, "TIMED_OUT")
         /\ v.state = "TIMED_OUT" => w.deadline <= t
         /\ v.state = "PENDING" => \E k \in DOMAIN v.deps : v.deps[k].state = "PENDING"
         /\ w.deadline > t /\ (\A k \in DOMAIN w.deps : w.deps[k].state = "PENDING" =>
                                 Undecided(w.descriptor[k].target, gs, ar))
            => /\ v.deps = w.deps
               /\ v.state = "PENDING" <=> \E k \in DOMAIN w.deps : w.deps[k].state = "PENDING"
<1> DEFINE new == [i \in DOMAIN w.deps |->
                     evaluate_dependency(w.descriptor[i], w.deps[i], gs, ar)]
           failed == {i \in DOMAIN w.deps :
                        w.deps[i].state = "PENDING" /\ new[i].state = "FAILED"}
           first == CHOOSE i \in failed : \A k \in failed : i <= k
           part == [i \in DOMAIN w.deps |-> IF i <= first THEN new[i] ELSE w.deps[i]]
           st == IF \E i \in DOMAIN w.deps : new[i].state = "PENDING"
                 THEN "PENDING" ELSE "SATISFIED"
           v == evaluate_wait(w, t, gs, ar)
           Open == \A k \in DOMAIN w.deps : w.deps[k].state = "PENDING" =>
                     Undecided(w.descriptor[k].target, gs, ar)
<1>1. /\ w.descriptor \in Descriptors
      /\ w.deadline \in Nat
      /\ DOMAIN w.deps = DOMAIN w.descriptor
      /\ w.deps \in [DOMAIN w.descriptor -> DependencyOutcome]
  BY WaitRowParts, TimeAssumption DEF Time, Infinity
<1>2. ASSUME NEW i \in DOMAIN w.deps
      PROVE  /\ new[i] \in DependencyOutcome
             /\ w.deps[i].state # "PENDING" => new[i] = w.deps[i]
             /\ Undecided(w.descriptor[i].target, gs, ar) => new[i] = w.deps[i]
  <2> DEFINE dep == w.descriptor[i]
  <2>1. dep \in Dependency /\ w.deps[i] \in DependencyOutcome
    BY <1>1, DescriptorType
  <2>2. dep.target.kind = "goal" => gs[dep.target.id] # Null
    BY <1>1 DEF GoalsKnown
  <2>3. new[i] \in DependencyOutcome
    BY <2>1, <2>2, EvaluateDependencyType
  <2>4. w.deps[i].state # "PENDING" => new[i] = w.deps[i]
    BY DEF evaluate_dependency
  <2>5. ASSUME Undecided(dep.target, gs, ar) PROVE new[i] = w.deps[i]
    <3>1. dep.target.kind = "goal" \/ dep.target.kind = "job"
      BY <2>1 DEF Dependency, Target
    <3>2. CASE dep.target.kind = "goal"
      BY <2>5, <3>2 DEF Undecided, evaluate_dependency, goal_outcome
    <3>3. CASE dep.target.kind = "job"
      BY <2>5, <3>3 DEF Undecided, evaluate_dependency, job_outcome
    <3> QED
      BY <3>1, <3>2, <3>3
  <2> QED
    BY <2>3, <2>4, <2>5
<1>3. /\ new \in [DOMAIN w.descriptor -> DependencyOutcome]
      /\ part \in [DOMAIN w.descriptor -> DependencyOutcome]
  BY <1>1, <1>2
<1>4. st \in WaitState /\ "TIMED_OUT" \in WaitState /\ "FAILED" \in WaitState
  BY DEF WaitState
<1>5. v = CASE w.state # "PENDING" -> w
            [] w.state = "PENDING" /\ w.deadline <= t -> close_wait(w, "TIMED_OUT")
            [] w.state = "PENDING" /\ w.deadline > t /\ failed # {} ->
                 close_wait([w EXCEPT !.deps = part], "FAILED")
            [] w.state = "PENDING" /\ w.deadline > t /\ failed = {} ->
                 [w EXCEPT !.deps = new, !.state = st]
  BY Zenon DEF evaluate_wait
<1>6. Open => failed = {} /\ new = w.deps
  BY <1>1, <1>2
<1>7. st = "PENDING" <=> \E k \in DOMAIN w.deps : new[k].state = "PENDING"
  OBVIOUS
<1>8. DOMAIN new = DOMAIN w.deps
  OBVIOUS
<1>9. st # "TIMED_OUT"
  OBVIOUS
<1> HIDE DEF new, failed, part, st, v, Open
<1>10. CASE w.deadline <= t
  <2>1. v = close_wait(w, "TIMED_OUT")
    BY <1>1, <1>5, <1>10
  <2>2. v.state = "TIMED_OUT"
    BY <1>4, <2>1, CloseWaitType
  <2> QED
    BY <1>1, <1>10, <2>1, <2>2 DEF v
<1>11. CASE w.deadline > t /\ failed # {}
  <2> DEFINE u == [w EXCEPT !.deps = part]
  <2>1. u \in WaitRow
    BY <1>3, WaitRowDeps
  <2>2. v = close_wait(u, "FAILED")
    BY <1>1, <1>5, <1>11
  <2> HIDE DEF u
  <2>3. v.state = "FAILED"
    BY <1>4, <2>1, <2>2, CloseWaitType
  <2> QED
    BY <1>1, <1>6, <1>11, <2>3 DEF v, Open
<1>12. CASE w.deadline > t /\ failed = {}
  <2> DEFINE u == [w EXCEPT !.deps = new]
  <2>1. u \in WaitRow /\ u.deps = new
    BY <1>3, WaitRowDeps
  <2>2. v = [u EXCEPT !.state = st]
    BY <1>1, <1>5, <1>12
  <2> HIDE DEF u
  <2>3. v.deps = new /\ v.state = st
    BY <1>4, <2>1, <2>2, WaitRowState
  <2> QED
    BY <1>1, <1>6, <1>7, <1>8, <1>9, <1>12, <2>3 DEF v, Open
<1> QED
  BY <1>1, <1>10, <1>11, <1>12

-----------------------------------------------------------------------------
(* What the rows say between two queries *)

(* The wait that a job's row points to is stored.                           *)
PointerKnown ==
  \A j \in Job, i \in WaitId :
    jobs[j] # Null /\ jobs[j].dependency_wait_id = i => waits[j][i] # Null

(* A row never points to a wait before it is stored.                        *)
LEMMA PointerKnownStep ==
  ASSUME IInv, ControlInv, OneHome, PointerKnown, [Next]_vars
  PROVE  PointerKnown'
<1> DEFINE Known(j) ==
      \A i \in WaitId : jobs[j] # Null /\ jobs[j].dependency_wait_id = i => waits[j][i] # Null
<1>1. \A j \in Job, i \in WaitId : waits[j][i] # Null => waits'[j][i] # Null
  BY NextPreserves DEF Preserves, WaitsFollow, WaitStep, Kept
<1>2. ASSUME NEW j \in Job,
             jobs'[j] # Null =>
               jobs[j] # Null /\ jobs'[j].dependency_wait_id = jobs[j].dependency_wait_id
      PROVE  Known(j)'
  BY <1>1, <1>2 DEF PointerKnown
<1>3. waits' \in WaitTable /\ jobs' \in [Job -> JobRow \cup {Null}]
  BY NextInv DEF IInv, TypeOK, WaitTable
<1>4. CASE Quiet \/ Prepare \/ Joins \/ Fails \/ \E j \in Job : Hides(j)
  <2>1. \A j \in Job : jobs'[j] # Null =>
          jobs[j] # Null /\ jobs'[j].dependency_wait_id = jobs[j].dependency_wait_id
    BY <1>4, PrepareEffect, GoalEffect DEF Quiet, KeepsWaiting, Hides
  <2> QED
    BY <1>2, <2>1 DEF PointerKnown
<1>5. ASSUME NEW j \in Job, NEW outcome \in Outcomes, Ends(j, outcome) PROVE PointerKnown'
  <2>1. ASSUME NEW k \in Job, jobs'[k] # Null
        PROVE  jobs[k] # Null /\ jobs'[k].dependency_wait_id = jobs[k].dependency_wait_id
    <3>1. k # j /\ jobs[k] # Null
      BY <1>5, <2>1, EndsEffect
    <3>2. jobs'[k] = forget_completed(jobs[k], j, now)
      BY <1>5, <3>1, EndsEffect
    <3>3. jobs[k] \in JobRow
      BY <3>1 DEF IInv, TypeOK
    <3> QED
      BY <3>1, <3>2, <3>3, ForgetCompletedFields
  <2> QED
    BY <1>2, <2>1 DEF PointerKnown
<1>6. ASSUME NEW j \in Job, NEW i \in WaitId, Evaluates(j, i) \/ Inserts(j, i)
      PROVE  waits'[j][i] # Null
  <2>1. CASE waits[j][i] # Null
    BY <1>1, <2>1
  <2>2. CASE Inserts(j, i)
    <3>1. PICK deps \in Descriptors, deadline \in Time :
            /\ targets_exist(j, deps)
            /\ waits'[j][i] = evaluate_wait(new_wait(deps, deadline), now, goals', archive')
      BY <2>2 DEF Inserts
    <3> DEFINE n == new_wait(deps, deadline)
    <3>2. n \in WaitRow /\ n.descriptor = deps
      BY NewWaitType
    <3> HIDE DEF n
    <3>3. GoalsKnown(n, goals')
      BY <3>1, <3>2 DEF GoalsKnown, targets_exist
    <3>4. goals' \in GoalTable /\ archive' \in ArchiveTable /\ now \in Nat
      BY NextInv, ClockRuns DEF IInv, TypeOK, GoalTable, ArchiveTable
    <3>5. evaluate_wait(n, now, goals', archive') \in WaitRow
      BY <3>2, <3>3, <3>4, EvaluateWaitType
    <3> QED
      BY <3>1, <3>5, RowAssumption DEF n
  <2> QED
    BY <1>6, <2>1, <2>2 DEF Evaluates
<1>7. ASSUME NEW req \in Submissions, NEW j \in Job, NEW g \in Goal, Submits(j, req, g)
      PROVE  PointerKnown'
  <2>1. /\ jobs'[j].dependency_wait_id = IF req.deps = <<>> THEN Null ELSE "submission"
        /\ \A k \in Job \ {j} : jobs'[k] = jobs[k]
    BY <1>7, SubmitsEffect
  <2>2. \A k \in Job \ {j} : Known(k)'
    BY <1>2, <2>1
  <2>3. Known(j)'
    <3>1. CASE req.deps = <<>>
      BY <2>1, <3>1, NullAssumption
    <3>2. CASE req.deps # <<>>
      <4>1. Evaluates(j, "submission") \/ Inserts(j, "submission")
        BY <1>7, <3>2, SubmitsRows
      <4>2. "submission" \in WaitId
        BY InputAssumption
      <4>3. waits'[j]["submission"] # Null
        BY <1>6, <4>1, <4>2
      <4> QED
        BY <2>1, <3>2, <4>3
    <3> QED
      BY <3>1, <3>2
  <2> QED
    BY <2>2, <2>3 DEF PointerKnown
<1>8. ASSUME NEW c \in {call} \ {Null}, Moves(c) PROVE PointerKnown'
  <2> DEFINE j == c.job
             wait == c.req.wait
  <2>1. /\ j \in Job /\ c.req \in RescheduleRequest
        /\ jobs'[j].dependency_wait_id = IF wait = Null THEN Null ELSE wait.id
        /\ \A k \in Job \ {j} : jobs'[k] = jobs[k]
    BY <1>8, MovesEffect
  <2>2. wait # Null => wait.id \in WaitId /\ (Evaluates(j, wait.id) \/ Inserts(j, wait.id))
    <3>1. wait # Null => wait.id \in WaitId
      BY <2>1 DEF RescheduleRequest
    <3>2. wait # Null => (Evaluates(j, wait.id) \/ Inserts(j, wait.id))
      BY <1>8, MovesRows
    <3> QED
      BY <3>1, <3>2
  <2> HIDE DEF j, wait
  <2>3. \A k \in Job \ {j} : Known(k)'
    BY <1>2, <2>1
  <2>4. wait # Null => waits'[j][wait.id] # Null
    BY <1>6, <2>1, <2>2
  <2>5. Known(j)'
    BY <2>1, <2>4, NullAssumption
  <2> QED
    BY <2>3, <2>5 DEF PointerKnown
<1> QED
  BY <1>4, <1>5, <1>7, <1>8, KindCases

(* What a reader of the tables can rely on.                                 *)
Readable ==
  /\ IInv /\ OneHome /\ MembersKnown /\ NoLostWakeup /\ RowsJustified
  /\ GoalOutcomeJustified /\ PointerKnown

(* It holds in every state of the scheduler.                                *)
LEMMA AlwaysReadable == Spec => []Readable
<1>1. Init => PointerKnown
  BY DEF Init, PointerKnown
<1>2. IInv /\ ControlInv /\ OneHome /\ PointerKnown /\ [Next]_vars => PointerKnown'
  BY PointerKnownStep
<1>3. Spec => []PointerKnown
  BY <1>1, <1>2, Control, EveryJobHasOneHome, PTL DEF Spec
<1>4. IInv /\ OneHome /\ MembersKnown /\ NoLostWakeup /\ RowsJustified
      /\ GoalOutcomeJustified /\ PointerKnown => Readable
  BY DEF Readable
<1> QED
  BY <1>3, <1>4, Control, KnownMembers, WakeupsAreNotLost, AllRowsJustified,
     GoalOutcomesAreJustified, PTL

(* A reader of a wait sees the stored row until its deadline, and nothing   *)
(* pending afterwards or in a wait that is decided.                         *)
LEMMA ReaderSees ==
  ASSUME Readable, NEW j \in Job, NEW i \in WaitId, waits[j][i] # Null
  PROVE  LET w == waits[j][i]
             v == dependency_wait_info(j, i)
         IN /\ w \in WaitRow /\ v.descriptor = w.descriptor
            /\ v.state = "PENDING" <=> w.state = "PENDING" /\ w.deadline > now
            /\ v.state = "PENDING" => v.deps = w.deps
            /\ v.state # "PENDING" => \A k \in DOMAIN v.deps : v.deps[k].state # "PENDING"
            /\ v.state = "TIMED_OUT" =>
                 w.state = "TIMED_OUT" \/ (w.state = "PENDING" /\ w.deadline <= now)
<1> DEFINE w == waits[j][i]
           v == dependency_wait_info(j, i)
<1>1. goals \in GoalTable /\ archive \in ArchiveTable /\ now \in Nat
  BY TimeAssumption DEF Readable, IInv, TypeOK, GoalTable, ArchiveTable
<1>2. w \in WaitRow
  BY DEF Readable, IInv, TypeOK
<1>3. \A k \in DOMAIN w.deps :
        k \in DOMAIN w.descriptor /\ w.descriptor[k].target \in Target
  BY <1>2, WaitRowParts, DescriptorType DEF Dependency
<1>4. GoalsKnown(w, goals)
  <2>1. \A k \in DOMAIN w.descriptor : w.descriptor[k].target \in Target
    BY <1>2, WaitRowParts, DescriptorType DEF Dependency
  <2> QED
    BY <2>1 DEF Readable, IInv, KnownInv, KnownRow, Target, GoalsKnown
<1>5. w.state = "PENDING" =>
        \A k \in DOMAIN w.deps : w.deps[k].state = "PENDING" =>
          Undecided(w.descriptor[k].target, goals, archive)
  BY DEF Readable, NoLostWakeup, Undecided, goal_open
<1>6. DepsJustified(w, goals, archive) /\ StateFollows(w, now)
  BY DEF Readable, RowsJustified, RowJustified
<1>7. w.state = "PENDING" => \E k \in DOMAIN w.deps : w.deps[k].state = "PENDING"
  BY <1>6 DEF StateFollows
<1>8. w.deadline \in Nat
  BY <1>2, WaitRowParts, TimeAssumption DEF Time, Infinity
<1> HIDE DEF w, v
<1>9. v = evaluate_wait(w, now, goals, archive)
  BY DEF v, w, dependency_wait_info
<1>10. v \in WaitRow /\ v.descriptor = w.descriptor /\ (w.state # "PENDING" => v = w)
  BY <1>1, <1>2, <1>4, <1>9, EvaluateWaitType
<1>11. StateFollows(v, now)
  BY <1>1, <1>2, <1>4, <1>6, <1>9, EvaluateWaitJustified
<1>12. v.state # "PENDING" => \A k \in DOMAIN v.deps : v.deps[k].state # "PENDING"
  BY <1>11 DEF StateFollows
<1>13. CASE w.state # "PENDING"
  BY <1>2, <1>10, <1>12, <1>13 DEF v, w
<1>14. CASE w.state = "PENDING" /\ w.deadline <= now
  <2>1. v = close_wait(w, "TIMED_OUT")
    BY <1>1, <1>2, <1>4, <1>9, <1>14, EvaluateWaitCases
  <2>2. v.state = "TIMED_OUT"
    BY <1>2, <2>1, CloseWaitType DEF WaitState
  <2> QED
    BY <1>1, <1>2, <1>8, <1>10, <1>12, <1>14, <2>2 DEF v, w
<1>15. CASE w.state = "PENDING" /\ w.deadline > now
  <2>1. v.deps = w.deps /\ v.state = "PENDING"
    BY <1>1, <1>2, <1>4, <1>5, <1>7, <1>9, <1>15, EvaluateWaitCases
  <2> QED
    BY <1>2, <1>10, <1>12, <1>15, <2>1 DEF v, w
<1> QED
  BY <1>1, <1>8, <1>13, <1>14, <1>15

-----------------------------------------------------------------------------
(* The scheduler under its readers *)

(* Listing is reading: whatever clients page through, what happens to the   *)
(* tables is a behaviour of the scheduler.                                  *)
THEOREM DiscoveryImplementsScheduler == DiscoverySpec => Spec
<1>1. DiscoveryInit => Init
  BY DEF DiscoveryInit
<1>2. [DiscoveryNext]_dvars => [Next]_vars
  BY DEF DiscoveryNext, SchedulerStep, ListGoals, ListDependencyWaits, begin_listing, next_page,
         dvars
<1> QED
  BY <1>1, <1>2, PTL DEF DiscoverySpec, Spec

(* Asked who waits for a job or a goal, ListDependencyWaits names every     *)
(* wait that a reader would see pending on it and no other.                 *)
THEOREM BlockersAreFound == DiscoverySpec => []BlockersFound
<1>1. Readable => BlockersFound
  <2> SUFFICES ASSUME Readable, NEW t \in Target, NEW j \in Job, NEW i \in WaitId
               PROVE  wait_matches(j, i, [consumer |-> Null, target |-> t, states |-> {}]) <=>
                        /\ waits[j][i] # Null
                        /\ LET w == dependency_wait_info(j, i)
                           IN \E k \in DOMAIN w.deps :
                                w.deps[k].state = "PENDING" /\ w.descriptor[k].target = t
    BY DEF BlockersFound
  <2> DEFINE q == [consumer |-> Null, target |-> t, states |-> {}]
             v == dependency_wait_info(j, i)
             row == [job |-> j, wait |-> i, target |-> t]
             Awaits == \E k \in DOMAIN v.deps :
                         v.deps[k].state = "PENDING" /\ v.descriptor[k].target = t
  <2>1. q.consumer = Null /\ q.target = t /\ q.target # Null /\ q.states = {}
    BY DiscoveryAssumption
  <2> HIDE DEF v
  <2>2. wait_matches(j, i, q) <=>
          /\ waits[j][i] # Null
          /\ waits[j][i].state = "PENDING" /\ row \in targets
          /\ v.state = "PENDING" /\ Awaits
    <3> HIDE DEF q
    <3>1. wait_matches(j, i, q) <=>
            /\ waits[j][i] # Null
            /\ q.consumer # Null => j = q.consumer
            /\ q.target # Null =>
                 /\ waits[j][i].state = "PENDING"
                 /\ [job |-> j, wait |-> i, target |-> q.target] \in targets
                 /\ v.state = "PENDING"
                 /\ \E k \in DOMAIN v.deps :
                      v.deps[k].state = "PENDING" /\ v.descriptor[k].target = q.target
            /\ q.states = {} \/ v.state \in q.states
      BY Zenon DEF wait_matches, v
    <3> QED
      BY <2>1, <3>1
  <2>3. ASSUME waits[j][i] # Null, Awaits
        PROVE  waits[j][i].state = "PENDING" /\ row \in targets /\ v.state = "PENDING"
    <3> DEFINE w == waits[j][i]
    <3>1. /\ v.descriptor = w.descriptor
          /\ v.state = "PENDING" <=> w.state = "PENDING" /\ w.deadline > now
          /\ v.state = "PENDING" => v.deps = w.deps
          /\ v.state # "PENDING" => \A k \in DOMAIN v.deps : v.deps[k].state # "PENDING"
      BY <2>3, ReaderSees DEF v
    <3>2. v.state = "PENDING" /\ w.state = "PENDING" /\ v.deps = w.deps
      BY <2>3, <3>1
    <3>3. row \in TargetRow /\ row.job = j /\ row.wait = i /\ row.target = t
      BY DEF TargetRow
    <3> HIDE DEF row
    <3>4. pending_target(waits, row)
      BY <2>3, <3>1, <3>2, <3>3 DEF pending_target
    <3> QED
      BY <3>2, <3>3, <3>4 DEF Readable, IInv, TargetsExact
  <2> QED
    BY <2>2, <2>3 DEF v
<1> QED
  BY <1>1, AlwaysReadable, DiscoveryImplementsScheduler, PTL

(* A list of jobs and the job itself name the same blocking wait, and a job *)
(* is shown as blocked exactly while that wait keeps it from running.       *)
THEOREM BlockingIsShownAlike == DiscoverySpec => []BlockingAgrees
<1>1. Readable => BlockingAgrees
  <2> SUFFICES ASSUME Readable, NEW j \in Job
               PROVE  /\ blocking_wait_summary(j) = BlockingDependencyWait(j)
                      /\ jobs[j] # Null /\ read_row(j).lease_expires_at <= now =>
                           (BlockingDependencyWait(j) # Null => status(j) = "PENDING_JOBS")
                      /\ jobs[j] # Null /\ status(j) = "PENDING_JOBS" /\ jobs[j].wait_for = {} =>
                           BlockingDependencyWait(j) # Null
    BY DEF BlockingAgrees
  <2> DEFINE i == jobs[j].dependency_wait_id
             w == waits[j][i]
  <2>1. CASE jobs[j] = Null
    BY <2>1 DEF blocking_wait_summary, BlockingDependencyWait
  <2>2. CASE jobs[j] # Null /\ i = Null
    <3>1. read_row(j).dependency_wait_id = Null /\ read_row(j).wait_for = jobs[j].wait_for
      BY <2>2, ReadRow DEF Readable, IInv, KeepsWaiting
    <3>2. status(j) = "PENDING_JOBS" => jobs[j].wait_for # {}
      BY <3>1 DEF status, job_status_at
    <3> QED
      BY <2>2, <3>2 DEF blocking_wait_summary, BlockingDependencyWait
  <2>3. CASE jobs[j] # Null /\ i # Null
    <3> DEFINE row == read_row(j)
    <3>1. /\ row \in JobRow /\ now \in Nat
          /\ row.dependency_wait_id = i /\ row.wait_for = jobs[j].wait_for
      BY <2>3, ReadRow, TimeAssumption DEF Readable, IInv, TypeOK, KeepsWaiting
    <3>2. i \in WaitId /\ row.lease_expires_at \in Nat
      BY <2>3, <3>1, JobRowParts
    <3>3. w # Null
      BY <2>3, <3>2 DEF Readable, PointerKnown
    <3>4. dependency_wait_info(j, i).state = "PENDING" <=> w.state = "PENDING" /\ w.deadline > now
      BY <3>2, <3>3, ReaderSees
    <3>5. status(j) = IF row.lease_expires_at > now THEN "ACTIVE"
                      ELSE IF w.state = "PENDING" /\ w.deadline > now THEN "PENDING_JOBS"
                      ELSE status(j)
      BY <2>3, <3>1, <3>3 DEF status, job_status_at
    <3>6. status(j) = "PENDING_JOBS" /\ jobs[j].wait_for = {} =>
            w.state = "PENDING" /\ w.deadline > now
      BY <2>3, <3>1, <3>3 DEF status, job_status_at
    <3>7. /\ blocking_wait_summary(j) = IF w.state = "PENDING" /\ w.deadline > now THEN i ELSE Null
          /\ BlockingDependencyWait(j) =
               IF dependency_wait_info(j, i).state = "PENDING" THEN i ELSE Null
      BY <2>3, <3>3 DEF blocking_wait_summary, BlockingDependencyWait
    <3>8. read_row(j).lease_expires_at = row.lease_expires_at
      OBVIOUS
    <3> HIDE DEF i, w, row
    <3> QED
      BY <2>3, <3>1, <3>2, <3>4, <3>5, <3>6, <3>7, <3>8
  <2> QED
    BY <2>1, <2>2, <2>3
<1> QED
  BY <1>1, AlwaysReadable, DiscoveryImplementsScheduler, PTL

(* What AvailableRoutes lists for the routes of a worker is what a poll of  *)
(* that worker finds at the same time.                                      *)
THEOREM ListedWorkIsAcquirable == DiscoverySpec => []AvailableIsAcquirable
<1>1. TypeOK => AvailableIsAcquirable
  <2> SUFFICES ASSUME TypeOK, NEW w \in Worker, poll[w].v_now = now
               PROVE  available_jobs(Selector[w]) =
                        {j \in Job : pollable(read_row(j), w) /\ status(j) = "READY"}
    BY DEF AvailableIsAcquirable
  <2>1. ASSUME NEW j \in Job, jobs[j] # Null, status(j) = "READY"
        PROVE  read_row(j).expires_at > now /\ read_row(j).lease_expires_at <= now
    <3> DEFINE row == read_row(j)
    <3>1. row \in JobRow /\ now \in Nat
      BY <2>1, ReadRow, TimeAssumption DEF TypeOK
    <3>2. row.expires_at \in Nat /\ row.lease_expires_at \in Nat
      BY <3>1, JobRowParts, TimeAssumption DEF Time, Infinity
    <3>3. ~ (row.lease_expires_at > now) /\ ~ (row.expires_at <= now)
      BY <2>1, Zenon DEF status, job_status_at
    <3> HIDE DEF row
    <3> QED
      BY <3>1, <3>2, <3>3 DEF row
  <2>2. ASSUME NEW j \in Job, jobs[j] # Null
        PROVE  /\ effective_native_route(read_row(j), now) = effective_native_route(jobs[j], now)
               /\ read_row(j) # Null
    <3>1. jobs[j] \in JobRow /\ read_row(j) # Null
      BY <2>2, ReadRow DEF TypeOK
    <3>2. read_row(j).route = jobs[j].route /\ read_row(j).alternate = jobs[j].alternate
      BY <3>1 DEF read_row, JobRow
    <3> QED
      BY <3>1, <3>2 DEF effective_native_route, alternate_due
  <2>3. \A j \in Job : jobs[j] = Null => read_row(j) = Null
    BY DEF read_row
  <2> QED
    BY <2>1, <2>2, <2>3 DEF available_jobs, pollable
<1> QED
  BY <1>1, TypeCorrect, DiscoveryImplementsScheduler, PTL

-----------------------------------------------------------------------------
(* Too late *)

(* One step of the scheduler, one wait that a reader has seen timed out.    *)
LEMMA TooLateStep ==
  ASSUME Readable, ControlInv, [Next]_vars, NEW j \in Job, NEW i \in WaitId,
         waits[j][i] # Null, dependency_wait_info(j, i).state = "TIMED_OUT"
  PROVE  dependency_wait_info(j, i)'.state \in {"TIMED_OUT", "CANCELLED"}
<1> DEFINE w == waits[j][i]
           v == waits'[j][i]
<1>1. IInv /\ OneHome
  BY DEF Readable
<1>2. /\ goals' \in GoalTable /\ archive' \in ArchiveTable
      /\ waits' \in WaitTable
  BY <1>1, NextInv DEF IInv, TypeOK, GoalTable, ArchiveTable, WaitTable
<1>3. now \in Nat /\ now' \in Nat /\ now <= now'
  BY <1>1, ClockRuns
<1>4. Grow
  BY <1>1, HistoryStep DEF Grow, History, FactsKept, GoalFollows
<1>5. w \in WaitRow /\ GoalsKnown(w, goals')
  BY <1>1, <1>4, KnownGoals DEF IInv
<1>6. w.state = "TIMED_OUT" \/ (w.state = "PENDING" /\ w.deadline <= now)
  BY ReaderSees
<1>7. /\ v # Null /\ v.descriptor = w.descriptor /\ v.deadline = w.deadline
      /\ w.state # "PENDING" => v = w
  BY <1>1, NextPreserves DEF Preserves, WaitsFollow, WaitStep, Kept
<1>8. v \in WaitRow /\ GoalsKnown(v, goals')
  BY <1>2, <1>5, <1>7 DEF WaitTable, GoalsKnown
<1>9. w.deadline \in Nat
  BY <1>5, WaitRowParts, TimeAssumption DEF Time, Infinity
<1>10. KeepsRow(j, i)
  BY <1>1, RowEffects DEF Inserts
<1>11. dependency_wait_info(j, i)' = evaluate_wait(v, now', goals', archive')
  BY DEF dependency_wait_info
<1>12. "TIMED_OUT" \in WaitState
  BY DEF WaitState
<1>13. v.state # "PENDING" => evaluate_wait(v, now', goals', archive') = v
  BY <1>2, <1>3, <1>8, EvaluateWaitType
<1>14. CASE v = w
  <2>1. CASE w.state = "TIMED_OUT"
    BY <1>11, <1>13, <1>14, <2>1
  <2>2. CASE w.state = "PENDING" /\ w.deadline <= now
    <3> HIDE DEF v, w
    <3>1. evaluate_wait(v, now', goals', archive') = close_wait(v, "TIMED_OUT")
      BY <1>2, <1>3, <1>8, <1>9, <1>14, <2>2, EvaluateWaitCases
    <3> QED
      BY <1>8, <1>11, <1>12, <3>1, CloseWaitType
  <2> QED
    BY <1>6, <2>1, <2>2
<1>15. CASE Cancels(j, i)
  BY <1>1, <1>11, <1>13, <1>15, CancelledRow DEF IInv
<1>16. CASE Evaluates(j, i) /\ w.state = "PENDING" /\ w.deadline <= now
  <2>1. v = evaluate_wait(w, now, goals', archive')
    BY <1>16 DEF Evaluates
  <2> HIDE DEF v, w
  <2>2. v = close_wait(w, "TIMED_OUT")
    BY <1>2, <1>3, <1>5, <1>16, <2>1, EvaluateWaitCases
  <2>3. v.state = "TIMED_OUT"
    BY <1>5, <1>12, <2>2, CloseWaitType
  <2> QED
    BY <1>11, <1>13, <2>3
<1> QED
  BY <1>6, <1>7, <1>10, <1>14, <1>15, <1>16 DEF KeepsRow

(* A wait that a reader has seen timed out, although no poll has closed it  *)
(* yet, never turns out satisfied or failed.                                *)
THEOREM SuccessCanBeTooLate == DiscoverySpec => TooLate
<1> DEFINE Final == \A j \in Job, i \in WaitId :
      waits[j][i] # Null /\ dependency_wait_info(j, i).state = "TIMED_OUT" =>
        dependency_wait_info(j, i)'.state \in {"TIMED_OUT", "CANCELLED"}
<1>1. Readable /\ ControlInv /\ [DiscoveryNext]_dvars => [Final]_dvars
  <2>1. [DiscoveryNext]_dvars => [Next]_vars
    BY DEF DiscoveryNext, SchedulerStep, ListGoals, ListDependencyWaits, begin_listing, next_page,
           dvars
  <2> QED
    BY <2>1, TooLateStep
<1> HIDE DEF Final
<1>2. DiscoverySpec => [][Final]_dvars
  BY <1>1, DiscoveryImplementsScheduler, AlwaysReadable, Control, PTL DEF DiscoverySpec
<1> QED
  BY <1>2 DEF TooLate, Final

-----------------------------------------------------------------------------
(* Counts *)

(* The rows of job_facts, goals and dependency_waits.                       *)
StoredJobs == {j \in Job : facts[j] # Null}
StoredGoals == {r \in Goal \X {Null} : goals[r[1]] # Null}
StoredWaits == {r \in Job \X WaitId : waits[r[1]][r[2]] # Null}

FiniteTables == IsFiniteSet(StoredJobs) /\ IsFiniteSet(StoredGoals) /\ IsFiniteSet(StoredWaits)

(* A table that gains one row at most stays finite.                         *)
LEMMA FiniteGrowth ==
  ASSUME NEW S, NEW T, NEW x, IsFiniteSet(S), T \subseteq S \cup {x}
  PROVE  IsFiniteSet(T)
<1>1. IsFiniteSet(S \cup {x})
  BY FS_AddElement
<1> QED
  BY <1>1, FS_Subset

(* Every step stores one job, one goal and one wait at most.                *)
LEMMA FiniteTablesStep ==
  ASSUME IInv, ControlInv, FiniteTables, [Next]_vars
  PROVE  FiniteTables'
<1> DEFINE NoJob == \A j \in Job : facts'[j] # Null => facts[j] # Null
           NoGoal == \A g \in Goal : goals'[g] # Null => goals[g] # Null
           NoWait == \A j \in Job, i \in WaitId : waits'[j][i] # Null => waits[j][i] # Null
           NewWait(k, h) == \A j \in Job, i \in WaitId :
             waits'[j][i] # Null => waits[j][i] # Null \/ (j = k /\ i = h)
<1>1. (\A j \in Job, i \in WaitId : KeepsRow(j, i)) => NoWait
  BY DEF KeepsRow, Cancels, Evaluates, Pending
<1>2. CASE NoJob /\ NoGoal /\ NoWait
  <2>1. StoredJobs' \subseteq StoredJobs
    BY <1>2 DEF StoredJobs
  <2>2. StoredGoals' \subseteq StoredGoals
    BY <1>2 DEF StoredGoals
  <2>3. StoredWaits' \subseteq StoredWaits
    BY <1>2 DEF StoredWaits
  <2> QED
    BY <2>1, <2>2, <2>3, FS_Subset DEF FiniteTables
<1>3. CASE Quiet
  BY <1>1, <1>2, <1>3, ExpireRows DEF Quiet
<1>4. CASE Prepare
  BY <1>2, <1>4, PrepareEffect
<1>5. CASE Joins \/ Fails
  <2>1. NoJob
    BY <1>5, GoalEffect
  <2>2. NoGoal
    BY <1>5, JoinsEffect, FailsEffect DEF goal_open
  <2>3. NoWait
    BY <1>1, <1>5, GoalRows
  <2> QED
    BY <1>2, <2>1, <2>2, <2>3
<1>6. ASSUME NEW j \in Job, Hides(j) PROVE FiniteTables'
  <2>1. NoJob
    BY <1>6, HiddenEffect DEF Hides, IInv
  <2> QED
    BY <1>2, <1>6, <2>1 DEF Hides
<1>7. ASSUME NEW j \in Job, NEW outcome \in Outcomes, Ends(j, outcome) PROVE FiniteTables'
  <2>1. NoJob
    BY <1>7, EndsEffect
  <2>2. \A g \in Goal : goals'[g] = IF g \in won_goals(j, outcome) THEN Won(j) ELSE goals[g]
    BY <1>7, EndsEffect
  <2>3. NoGoal
    BY <2>2 DEF won_goals, goal_open
  <2>4. NoWait
    BY <1>1, <1>7, EndsRows
  <2> QED
    BY <1>2, <2>1, <2>3, <2>4
<1>8. ASSUME NEW k \in Job, NEW h, NewWait(k, h) PROVE IsFiniteSet(StoredWaits')
  <2>1. StoredWaits' \subseteq StoredWaits \cup {<<k, h>>}
    BY <1>8 DEF StoredWaits
  <2> QED
    BY <2>1, FiniteGrowth DEF FiniteTables
<1>9. ASSUME NEW req \in Submissions, NEW j \in Job, NEW g \in Goal, Submits(j, req, g)
      PROVE  FiniteTables'
  <2>1. StoredJobs' \subseteq StoredJobs \cup {j}
    BY <1>9 DEF StoredJobs, Submits
  <2>2. StoredGoals' \subseteq StoredGoals \cup {<<g, Null>>}
    <3>1. \A x \in Goal \ {g} : goals'[x] = goals[x]
      BY <1>9 DEF Submits, IInv, TypeOK
    <3> QED
      BY <3>1 DEF StoredGoals
  <2>3. NewWait(j, "submission")
    <3>1. CASE req.deps = <<>>
      BY <1>9, <3>1, SubmitsRows
    <3>2. CASE req.deps # <<>>
      <4>1. /\ \A i \in WaitId \ {"submission"} :
                 IF Pending(waits[j][i]) THEN Cancels(j, i) ELSE waits'[j][i] = waits[j][i]
            /\ \A m \in Job \ {j}, i \in WaitId : waits'[m][i] = waits[m][i]
        BY <1>9, <3>2, SubmitsRows
      <4> QED
        BY <4>1 DEF Pending
    <3> QED
      BY <3>1, <3>2
  <2> HIDE DEF NewWait
  <2> QED
    BY <1>8, <2>1, <2>2, <2>3, FiniteGrowth DEF FiniteTables
<1>10. ASSUME NEW c \in {call} \ {Null}, Moves(c) PROVE FiniteTables'
  <2> DEFINE j == c.job
             wait == c.req.wait
  <2>1. /\ j \in Job
        /\ UNCHANGED <<facts, goals>>
    BY <1>10, MovesEffect
  <2>2. IF wait = Null THEN \A k \in Job, i \in WaitId : KeepsRow(k, i)
        ELSE /\ \A i \in WaitId \ {wait.id} :
                  IF Pending(waits[j][i]) THEN Cancels(j, i) ELSE waits'[j][i] = waits[j][i]
             /\ \A k \in Job \ {j}, i \in WaitId : waits'[k][i] = waits[k][i]
    BY <1>10, MovesRows
  <2> HIDE DEF j, wait
  <2>3. CASE wait = Null
    BY <1>1, <1>2, <2>1, <2>2, <2>3
  <2>4. CASE wait # Null
    <3>1. NewWait(j, wait.id)
      BY <2>2, <2>4 DEF Pending
    <3>2. IsFiniteSet(StoredWaits')
      BY <1>8, <2>1, <3>1
    <3>3. StoredJobs' = StoredJobs /\ StoredGoals' = StoredGoals
      BY <2>1 DEF StoredJobs, StoredGoals
    <3> QED
      BY <3>2, <3>3 DEF FiniteTables
  <2> QED
    BY <2>3, <2>4
<1> QED
  BY <1>3, <1>4, <1>5, <1>6, <1>7, <1>9, <1>10, KindCases

(* The tables of the scheduler are always finite.                           *)
LEMMA TablesFinite == Spec => []FiniteTables
<1>1. Init => FiniteTables
  <2> SUFFICES ASSUME Init PROVE FiniteTables
    OBVIOUS
  <2>1. StoredJobs = {}
    BY DEF Init, StoredJobs
  <2>2. StoredGoals = {}
    BY DEF Init, StoredGoals
  <2>3. StoredWaits = {}
    BY DEF Init, StoredWaits
  <2> QED
    BY <2>1, <2>2, <2>3, FS_EmptySet DEF FiniteTables
<1>2. IInv /\ ControlInv /\ FiniteTables /\ [Next]_vars => FiniteTables'
  BY FiniteTablesStep
<1> QED
  BY <1>1, <1>2, Control, PTL DEF Spec

(* Every candidate of a goal is live or over, none is unavailable, and a    *)
(* goal succeeds only by a candidate that is over.                          *)
THEOREM CandidateCountsAddUp == DiscoverySpec => []CountsAddUp
<1>1. Readable /\ FiniteTables => CountsAddUp
  <2> SUFFICES ASSUME Readable, FiniteTables, NEW g \in Goal
               PROVE  LET n == candidate_counts(g)
                      IN /\ n.total = n.nonterminal + n.terminal /\ n.unavailable = 0
                         /\ goals[g] # Null /\ goals[g].state = "SUCCEEDED" => n.terminal > 0
    BY DEF CountsAddUp
  <2> DEFINE members == {j \in Job : goal_member(g, j)}
             live == {j \in members : archive[j] = Null /\ facts[j] # Null}
             over == {j \in members : archive[j] # Null}
             gone == {j \in members : facts[j] = Null}
             n == candidate_counts(g)
  <2>1. /\ n.total = Cardinality(members) /\ n.nonterminal = Cardinality(live)
        /\ n.terminal = Cardinality(over) /\ n.unavailable = Cardinality(gone)
    BY DEF candidate_counts
  <2>2. \A j \in members : facts[j] # Null
    BY DEF goal_member, Readable, MembersKnown
  <2>3. gone = {} /\ members = live \cup over /\ live \cap over = {}
    BY <2>2
  <2>4. members \subseteq StoredJobs /\ live \subseteq members /\ over \subseteq members
    BY <2>2 DEF StoredJobs
  <2>5. goals[g] # Null /\ goals[g].state = "SUCCEEDED" => over # {}
    BY DEF Readable, GoalOutcomeJustified
  <2> HIDE DEF members, live, over, gone, n
  <2>6. IsFiniteSet(members)
    BY <2>4, FS_Subset DEF FiniteTables
  <2>7. IsFiniteSet(live) /\ IsFiniteSet(over)
    BY <2>4, <2>6, FS_Subset
  <2>8. Cardinality(live) \in Nat /\ Cardinality(over) \in Nat
    BY <2>7, FS_CardinalityType
  <2>9. Cardinality(gone) = 0 /\ Cardinality(live \cap over) = 0
    BY <2>3, FS_EmptySet
  <2>10. Cardinality(live \cup over) =
           Cardinality(live) + Cardinality(over) - Cardinality(live \cap over)
    BY <2>7, FS_Union
  <2>11. Cardinality(members) = Cardinality(live) + Cardinality(over)
    BY <2>3, <2>8, <2>9, <2>10
  <2>12. over # {} => Cardinality(over) > 0
    BY <2>7, <2>8, FS_EmptySet
  <2> QED
    BY <2>1, <2>5, <2>9, <2>11, <2>12 DEF n
<1> QED
  BY <1>1, AlwaysReadable, TablesFinite, DiscoveryImplementsScheduler, PTL

-----------------------------------------------------------------------------
(* Pages of goals and waits *)

(* The listing in progress.                                                 *)
Listing ==
  [query : GoalQueries \cup WaitQueries \cup {Null}, paging : BOOLEAN, after : Nat \X Nat,
   returned : [Row -> Nat], lasting : SUBSET Row]

(* Every row has a place of its own, behind the start of a listing.         *)
LEMMA RowPlace ==
  /\ \A r \in Row : /\ position(r)[1] \in Nat \ {0} /\ position(r)[2] \in Nat
                    /\ position(r) \in Nat \X Nat
  /\ \A r, s \in Row :
       position(r)[1] = position(s)[1] /\ position(r)[2] = position(s)[2] => r = s
<1>1. /\ \A x \in Job \cup Goal \cup WaitId : Rank[x] \in Nat \ {0}
      /\ \A x, y \in Job \cup Goal \cup WaitId : Rank[x] = Rank[y] => x = y
  BY DiscoveryAssumption
<1>2. \A r \in Row : /\ r = <<r[1], r[2]>> /\ r[1] \in Job \cup Goal
                     /\ r[2] = Null \/ r[2] \in WaitId
  BY DEF Row
<1>3. \A r : /\ position(r)[1] = Rank[r[1]]
             /\ position(r)[2] = IF r[2] = Null THEN 0 ELSE Rank[r[2]]
             /\ position(r) = <<position(r)[1], position(r)[2]>>
  BY DEF position
<1>4. \A r \in Row : position(r)[1] \in Nat \ {0} /\ position(r)[2] \in Nat
  BY <1>1, <1>2, <1>3
<1>5. ASSUME NEW r \in Row, NEW s \in Row,
             position(r)[1] = position(s)[1], position(r)[2] = position(s)[2]
      PROVE  r = s
  <2>1. r[1] = s[1]
    BY <1>1, <1>2, <1>3, <1>5
  <2>2. r[2] = s[2]
    <3>1. r[2] = Null <=> s[2] = Null
      BY <1>1, <1>2, <1>3, <1>5
    <3> QED
      BY <1>1, <1>2, <1>3, <1>5, <3>1
  <2> QED
    BY <1>2, <2>1, <2>2
<1>6. \A r \in Row : position(r) \in Nat \X Nat
  BY <1>3, <1>4
<1> QED
  BY <1>4, <1>5, <1>6

(* The order of a set of rows, as a set of pairs.                           *)
Order(S) == {p \in S \X S : before(position(p[1]), position(p[2]))}

(* It is a strict order.                                                    *)
LEMMA OrderOrders ==
  ASSUME NEW S, S \subseteq Row
  PROVE  Orders(Order(S), S)
<1>1. \A s, t \in S : <<s, t>> \in Order(S) <=> before(position(s), position(t))
  BY DEF Order
<1>2. \A s \in S : position(s)[1] \in Nat /\ position(s)[2] \in Nat
  BY RowPlace
<1>3. \A s, t \in S : s # t => position(s)[1] # position(t)[1] \/ position(s)[2] # position(t)[2]
  BY RowPlace
<1>4. \A s \in S : ~before(position(s), position(s))
  BY <1>2 DEF before
<1>5. \A s, t \in S : s # t => before(position(s), position(t)) \/ before(position(t), position(s))
  BY <1>2, <1>3 DEF before
<1>6. \A s, t, u \in S : before(position(s), position(t)) /\ before(position(t), position(u))
        => before(position(s), position(u))
  BY <1>2 DEF before
<1> QED
  BY <1>1, <1>4, <1>5, <1>6 DEF Orders

(* A query finds stored rows only.                                          *)
LEMMA EligibleRows ==
  ASSUME FiniteTables, NEW q
  PROVE  eligible(q) \subseteq Row /\ IsFiniteSet(eligible(q)) /\ page(q) \subseteq eligible(q)
<1>1. eligible(q) \subseteq StoredGoals \cup StoredWaits
  <2> SUFFICES ASSUME NEW r \in Row, row_matches(r, q)
               PROVE  r \in StoredGoals \cup StoredWaits
    BY DEF eligible
  <2>1. CASE r[2] = Null
    <3>1. r \in Goal \X {Null}
      BY <2>1, NullAssumption DEF Row
    <3>2. goals[r[1]] # Null
      BY <2>1 DEF row_matches, goal_matches
    <3> QED
      BY <3>1, <3>2 DEF StoredGoals
  <2>2. CASE r[2] # Null
    <3>1. r \in Job \X WaitId
      BY <2>2 DEF Row
    <3>2. waits[r[1]][r[2]] # Null
      BY <2>2 DEF row_matches, wait_matches
    <3> QED
      BY <3>1, <3>2 DEF StoredWaits
  <2> QED
    BY <2>1, <2>2
<1>2. IsFiniteSet(StoredGoals \cup StoredWaits)
  BY FS_Union DEF FiniteTables
<1>3. IsFiniteSet(eligible(q))
  BY <1>1, <1>2, FS_Subset
<1> QED
  BY <1>3 DEF eligible, page

(* If something is left over, the page has a last row, and what is left     *)
(* over comes after it.                                                     *)
LEMMA PageFacts ==
  ASSUME FiniteTables, NEW q, page(q) # eligible(q)
  PROVE  /\ last_of_page(q) \in page(q)
         /\ \A r \in page(q) \ {last_of_page(q)} : before(position(r), position(last_of_page(q)))
         /\ \A r \in eligible(q) \ page(q) : before(position(last_of_page(q)), position(r))
<1> DEFINE S == eligible(q)
           P == page(q)
           R == Order(S)
           last == last_of_page(q)
<1>1. S \subseteq Row /\ IsFiniteSet(S) /\ P \subseteq S
  BY EligibleRows
<1>2. Orders(R, S)
  BY <1>1, OrderOrders
<1>3. \A s, t \in S : <<s, t>> \in R <=> before(position(s), position(t))
  BY DEF Order
<1>4. \A s \in S : Ahead(R, S, s) = {r \in S : before(position(r), position(s))}
  BY DEF Ahead, Order
<1>5. P = {s \in S : Cardinality(Ahead(R, S, s)) < PageSize}
  BY <1>4 DEF page
<1>6. last = CHOOSE row \in P : \A r \in P \ {row} : before(position(r), position(row))
  BY DEF last_of_page
<1>7. PageSize \in Nat \ {0} /\ P # S
  BY DiscoveryAssumption
<1> HIDE DEF S, P, R, last
<1>8. PICK l \in P : /\ \A t \in P \ {l} : <<t, l>> \in R
                     /\ \A s \in S \ P : <<l, s>> \in R
  BY <1>1, <1>2, <1>5, <1>7, PageOfOrder
<1>9. \A r \in P \ {l} : before(position(r), position(l))
  BY <1>1, <1>3, <1>8
<1>10. last \in P /\ \A r \in P \ {last} : before(position(r), position(last))
  BY <1>6, <1>9
<1>11. last = l
  <2>1. ASSUME last # l PROVE FALSE
    <3>1. <<last, l>> \in R /\ <<l, last>> \in R
      BY <1>1, <1>3, <1>8, <1>10, <2>1
    <3> QED
      BY <1>1, <1>2, <1>10, <3>1 DEF Orders
  <2> QED
    BY <2>1
<1>12. \A r \in S \ P : before(position(last), position(r))
  BY <1>1, <1>3, <1>8, <1>11
<1> QED
  BY <1>10, <1>12 DEF S, P, last

(* A page taken with the query q: what it makes of the listing.             *)
Paged(q) ==
  LET more == page(q) # eligible(q)
  IN /\ listing.paging /\ listing.query = q
     /\ listing' \in Listing /\ listing'.query = q
     /\ listing'.lasting = listing.lasting
     /\ listing'.returned = [r \in Row |-> IF r \in page(q) THEN listing.returned[r] + 1
                                           ELSE listing.returned[r]]
     /\ listing'.after = IF more THEN position(last_of_page(q)) ELSE <<0, 0>>
     /\ listing'.paging = more
     /\ UNCHANGED vars

(* It is well typed, since there is a last row if another page follows.     *)
LEMMA NextPage ==
  ASSUME listing \in Listing, FiniteTables, next_page
  PROVE  Paged(listing.query)
<1> DEFINE q == listing.query
           more == page(q) # eligible(q)
           count == [r \in Row |-> IF r \in page(q) THEN listing.returned[r] + 1
                                   ELSE listing.returned[r]]
           after == IF more THEN position(last_of_page(q)) ELSE <<0, 0>>
<1>1. listing' = [listing EXCEPT !.returned = count, !.after = after, !.paging = more]
  BY Zenon DEF next_page
<1>2. count \in [Row -> Nat] /\ more \in BOOLEAN
  BY DEF Listing
<1>3. after \in Nat \X Nat
  <2>1. CASE more
    <3>1. last_of_page(q) \in Row
      BY <2>1, PageFacts, EligibleRows
    <3> QED
      BY <2>1, <3>1, RowPlace
  <2>2. CASE ~more
    BY <2>2
  <2> QED
    BY <2>1, <2>2
<1>4. listing.paging /\ UNCHANGED vars
  BY DEF next_page
<1> HIDE DEF count, after, more
<1>5. /\ listing' \in Listing /\ listing'.query = listing.query
      /\ listing'.lasting = listing.lasting
      /\ listing'.returned = count /\ listing'.after = after /\ listing'.paging = more
  BY <1>1, <1>2, <1>3 DEF Listing
<1> QED
  BY <1>4, <1>5 DEF Paged, count, after, more

(* A listing begun.                                                         *)
LEMMA BegunListing ==
  ASSUME NEW q \in GoalQueries \cup WaitQueries, begin_listing(q)
  PROVE  /\ listing' \in Listing /\ listing'.query = q /\ listing'.paging = TRUE
         /\ listing'.after = <<0, 0>> /\ listing'.returned = [r \in Row |-> 0]
         /\ listing'.lasting = {r \in Row : row_matches(r, q)}
         /\ UNCHANGED vars
<1> DEFINE S == {r \in Row : row_matches(r, q)}
           none == [r \in Row |-> 0]
           start == <<0, 0>>
<1>1. listing' = [query |-> q, paging |-> TRUE, after |-> start, returned |-> none, lasting |-> S]
  BY DEF begin_listing
<1>2. S \in SUBSET Row /\ none \in [Row -> Nat] /\ start \in Nat \X Nat
  OBVIOUS
<1> HIDE DEF S, none, start
<1>3. /\ listing' \in Listing /\ listing'.query = q /\ listing'.paging = TRUE
      /\ listing'.after = start /\ listing'.returned = none /\ listing'.lasting = S
  BY <1>1, <1>2 DEF Listing
<1> QED
  BY <1>3 DEF begin_listing, S, none, start

(* What a step of the scheduler leaves of the listing.                      *)
Followed(q) ==
  /\ listing.query = q /\ listing' \in Listing
  /\ listing'.query = listing.query /\ listing'.paging = listing.paging
  /\ listing'.after = listing.after /\ listing'.returned = listing.returned
  /\ listing'.lasting = IF listing.paging THEN {r \in listing.lasting : row_matches(r, q)'}
                        ELSE listing.lasting

LEMMA FollowedListing ==
  ASSUME listing \in Listing, SchedulerStep
  PROVE  \E q \in {listing.query} : Followed(q)
<1>1. PICK q \in {listing.query} :
        listing' = [listing EXCEPT !.lasting =
                      IF listing.paging THEN {r \in @ : row_matches(r, q)'} ELSE @]
  BY DEF SchedulerStep
<1> DEFINE rest == IF listing.paging THEN {r \in listing.lasting : row_matches(r, q)'}
                   ELSE listing.lasting
<1>2. rest \in SUBSET Row
  BY DEF Listing
<1>3. listing' = [listing EXCEPT !.lasting = rest]
  BY <1>1
<1> HIDE DEF rest
<1>4. /\ listing' \in Listing
      /\ listing'.query = listing.query /\ listing'.paging = listing.paging
      /\ listing'.after = listing.after /\ listing'.returned = listing.returned
      /\ listing'.lasting = rest
  BY <1>2, <1>3 DEF Listing
<1>5. listing.query = q
  OBVIOUS
<1>6. Followed(q)
  BY <1>4, <1>5 DEF Followed, rest
<1> QED
  BY <1>6

(* The kinds of steps.                                                      *)
LEMMA ListingSteps ==
  ASSUME listing \in Listing, FiniteTables, [DiscoveryNext]_dvars
  PROVE  \/ UNCHANGED dvars
         \/ \E q \in GoalQueries \cup WaitQueries : begin_listing(q)
         \/ \E q \in {listing.query} : Paged(q)
         \/ \E q \in {listing.query} : Followed(q)
  BY NextPage, FollowedListing DEF DiscoveryNext, ListGoals, ListDependencyWaits

(* While pages are left, what was returned is not after the cursor, and     *)
(* what has matched all along was returned or is still ahead of it.         *)
ListInv ==
  /\ \A r \in Row : listing.returned[r] \in {0, 1}
  /\ ~listing.paging => \A r \in listing.lasting : listing.returned[r] = 1
  /\ listing.paging =>
       /\ \A r \in listing.lasting : row_matches(r, listing.query)
       /\ \A r \in Row : listing.returned[r] = 1 => ~after_cursor(r)
       /\ \A r \in listing.lasting : listing.returned[r] = 1 \/ after_cursor(r)

ListingInv == listing \in Listing /\ ListInv

(* Whether a row matches depends on the tables only.                        *)
LEMMA MatchesKept ==
  ASSUME UNCHANGED vars, NEW r, NEW q
  PROVE  row_matches(r, q)' <=> row_matches(r, q)
<1>1. UNCHANGED <<now, facts, archive, goals, candidates, waits, targets>>
  BY DEF vars, tables
<1>2. \A j, i : dependency_wait_info(j, i)' = dependency_wait_info(j, i)
  BY <1>1 DEF dependency_wait_info
<1> QED
  BY <1>1, <1>2 DEF row_matches, goal_matches, wait_matches, goal_member

(* The first page is open to every row.                                     *)
LEMMA BeginStep ==
  ASSUME NEW q \in GoalQueries \cup WaitQueries, begin_listing(q)
  PROVE  ListInv'
<1>1. /\ listing'.query = q /\ listing'.paging = TRUE
      /\ listing'.after = <<0, 0>> /\ listing'.returned = [r \in Row |-> 0]
      /\ listing'.lasting = {r \in Row : row_matches(r, q)}
      /\ UNCHANGED vars
  BY BegunListing
<1>2. \A r \in listing'.lasting : r \in Row /\ row_matches(r, q)'
  BY <1>1, MatchesKept
<1>3. \A r \in listing'.lasting : row_matches(r, listing.query)'
  BY <1>1, <1>2
<1>4. \A r \in Row : after_cursor(r)'
  <2>1. \A r \in Row : before(listing'.after, position(r))
    BY <1>1, RowPlace DEF before
  <2> QED
    BY <2>1 DEF after_cursor, position
<1>5. \A r \in Row : listing'.returned[r] = 0
  BY <1>1
<1> QED
  BY <1>1, <1>2, <1>3, <1>4, <1>5 DEF ListInv

(* The scheduler can only take rows out of the ones that lasted.            *)
LEMMA FollowStep ==
  ASSUME listing \in Listing, ListInv, NEW q \in {listing.query}, Followed(q)
  PROVE  ListInv'
<1>1. /\ listing.query = q /\ listing'.query = q /\ listing'.paging = listing.paging
      /\ listing'.after = listing.after /\ listing'.returned = listing.returned
      /\ listing'.lasting = IF listing.paging THEN {r \in listing.lasting : row_matches(r, q)'}
                            ELSE listing.lasting
  BY DEF Followed
<1>2. \A r : after_cursor(r)' <=> after_cursor(r)
  BY <1>1 DEF after_cursor, position
<1>3. CASE listing.paging
  <2>1. \A r \in listing'.lasting : r \in listing.lasting /\ row_matches(r, listing.query)'
    BY <1>1, <1>3
  <2> QED
    BY <1>1, <1>2, <1>3, <2>1 DEF ListInv
<1>4. CASE ~listing.paging
  BY <1>1, <1>2, <1>4 DEF ListInv
<1> QED
  BY <1>3, <1>4

(* One page more: what it adds lies between the old cursor and the new one. *)
LEMMA PageStep ==
  ASSUME listing \in Listing, FiniteTables, ListInv, NEW q \in {listing.query}, Paged(q)
  PROVE  ListInv'
<1> DEFINE S == eligible(q)
           P == page(q)
           last == last_of_page(q)
<1>1. /\ listing.paging /\ listing.query = q /\ listing'.query = q
      /\ listing'.lasting = listing.lasting
      /\ listing'.returned = [r \in Row |-> IF r \in P THEN listing.returned[r] + 1
                                            ELSE listing.returned[r]]
      /\ listing'.after = IF P # S THEN position(last) ELSE <<0, 0>>
      /\ listing'.paging = (P # S)
      /\ UNCHANGED vars
  BY DEF Paged
<1>2. S \subseteq Row /\ P \subseteq S /\ listing.lasting \subseteq Row
  BY EligibleRows DEF Listing
<1>3. \A r \in Row : r \in S <=> row_matches(r, q) /\ after_cursor(r)
  BY DEF eligible
<1>4. \A r \in P : listing.returned[r] = 0
  BY <1>1, <1>2, <1>3 DEF ListInv
<1>5. \A r \in listing.lasting : row_matches(r, q) /\ (listing.returned[r] = 1 \/ r \in S)
  BY <1>1, <1>2, <1>3 DEF ListInv
<1>6. P # S => /\ last \in P
               /\ \A r \in P \ {last} : before(position(r), position(last))
               /\ \A r \in S \ P : before(position(last), position(r))
  BY PageFacts
<1> HIDE DEF S, P, last
<1>7. \A r \in Row : /\ listing'.returned[r] \in {0, 1}
                     /\ listing'.returned[r] = 1 <=> r \in P \/ listing.returned[r] = 1
  BY <1>1, <1>4 DEF ListInv
<1>8. CASE P = S
  <2>1. ~listing'.paging
    BY <1>1, <1>8
  <2> QED
    BY <1>1, <1>2, <1>5, <1>7, <1>8, <2>1 DEF ListInv
<1>9. CASE P # S
  <2>1. listing'.paging /\ listing'.after = position(last) /\ last \in Row /\ last \in S
    BY <1>1, <1>2, <1>6, <1>9
  <2>2. \A r : after_cursor(r)' <=> before(position(last), position(r))
    BY <2>1 DEF after_cursor, position
  <2>3. listing.after \in Nat \X Nat /\ before(listing.after, position(last))
    BY <1>3, <2>1 DEF Listing, after_cursor
  <2>4. ASSUME NEW r \in Row, listing'.returned[r] = 1
        PROVE  ~before(position(last), position(r))
    <3>1. /\ position(r)[1] \in Nat /\ position(r)[2] \in Nat
          /\ position(last)[1] \in Nat /\ position(last)[2] \in Nat
      BY <2>1, RowPlace
    <3>2. CASE r \in P
      <4>1. r = last \/ before(position(r), position(last))
        BY <1>6, <1>9, <3>2
      <4> QED
        BY <3>1, <4>1 DEF before
    <3>3. CASE r \notin P
      <4>1. ~before(listing.after, position(r))
        BY <1>1, <1>7, <2>4, <3>3 DEF ListInv, after_cursor
      <4> QED
        BY <2>3, <3>1, <4>1 DEF before
    <3> QED
      BY <3>2, <3>3
  <2>5. \A r \in listing.lasting : listing'.returned[r] = 1 \/ before(position(last), position(r))
    BY <1>2, <1>5, <1>6, <1>7, <1>9
  <2>6. \A r \in listing.lasting : row_matches(r, q)'
    BY <1>1, <1>5, MatchesKept
  <2>7. \A r \in listing.lasting : row_matches(r, listing.query)'
    BY <1>1, <2>6
  <2> QED
    BY <1>1, <1>7, <2>1, <2>2, <2>4, <2>5, <2>7 DEF ListInv
<1> QED
  BY <1>8, <1>9

(* DiscoveryExact for every number of goals and waits, every query and page *)
(* size, and every scheduler step between two pages.                        *)
THEOREM DiscoveryListingIsExact == DiscoverySpec => []DiscoveryExact
<1>1. DiscoveryInit => ListingInv
  <2> SUFFICES ASSUME DiscoveryInit PROVE listing \in Listing /\ ListInv
    BY DEF ListingInv
  <2> DEFINE none == [r \in Row |-> 0]
             start == <<0, 0>>
  <2>1. listing = [query |-> Null, paging |-> FALSE, after |-> start, returned |-> none,
                   lasting |-> {}]
    BY DEF DiscoveryInit
  <2>2. none \in [Row -> Nat] /\ start \in Nat \X Nat /\ \A r \in Row : none[r] = 0
    OBVIOUS
  <2> HIDE DEF none, start
  <2>3. listing \in Listing
    BY <2>1, <2>2 DEF Listing
  <2>4. listing.paging = FALSE /\ listing.lasting = {} /\ listing.returned = none
    BY <2>1
  <2> QED
    BY <2>2, <2>3, <2>4 DEF ListInv
<1>2. ListingInv /\ FiniteTables /\ [DiscoveryNext]_dvars => ListingInv'
  <2> SUFFICES ASSUME listing \in Listing, ListInv, FiniteTables, [DiscoveryNext]_dvars
               PROVE  listing' \in Listing /\ ListInv'
    BY DEF ListingInv, Listing, Row
  <2>1. CASE UNCHANGED dvars
    <3>1. listing' = listing /\ UNCHANGED vars
      BY <2>1 DEF dvars
    <3>2. \A r : /\ row_matches(r, listing.query)' <=> row_matches(r, listing.query)
                 /\ after_cursor(r)' <=> after_cursor(r)
      <4>1. ASSUME NEW r, NEW q \in {listing.query}
            PROVE  row_matches(r, q)' <=> row_matches(r, q)
        BY <3>1, MatchesKept
      <4>2. \A r : after_cursor(r)' <=> after_cursor(r)
        BY <3>1 DEF after_cursor, position
      <4> QED
        BY <3>1, <4>1, <4>2
    <3> QED
      BY <3>1, <3>2 DEF ListInv
  <2>2. ASSUME NEW q \in GoalQueries \cup WaitQueries, begin_listing(q)
        PROVE  listing' \in Listing /\ ListInv'
    BY <2>2, BegunListing, BeginStep
  <2>3. ASSUME NEW q \in {listing.query}, Paged(q)
        PROVE  listing' \in Listing /\ ListInv'
    <3>1. listing' \in Listing
      BY <2>3 DEF Paged
    <3> QED
      BY <2>3, <3>1, PageStep
  <2>4. ASSUME NEW q \in {listing.query}, Followed(q)
        PROVE  listing' \in Listing /\ ListInv'
    <3>1. listing' \in Listing
      BY <2>4 DEF Followed
    <3> QED
      BY <2>4, <3>1, FollowStep
  <2> QED
    BY <2>1, <2>2, <2>3, <2>4, ListingSteps
<1>3. ListingInv => DiscoveryExact
  BY DEF ListingInv, Listing, ListInv, DiscoveryExact
<1> QED
  BY <1>1, <1>2, <1>3, TablesFinite, DiscoveryImplementsScheduler, PTL DEF DiscoverySpec

=============================================================================
