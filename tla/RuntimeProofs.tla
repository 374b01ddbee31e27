--------------------------- MODULE RuntimeProofs ---------------------------
(***************************************************************************)
(* Proofs about RuntimeAdapter, for every set of jobs, workers, inputs and *)
(* run policies: the adapter uses the scheduler as the scheduler allows,   *)
(* so that everything proved about Scheduler holds of it; leases reported  *)
(* lost are lost, leases nobody heard of run out, and the answer to a      *)
(* mutation shows the mutation.                                            *)
(***************************************************************************)
EXTENDS RuntimeAdapter, SchedulerProofs

-----------------------------------------------------------------------------
(* The adapter's calls are calls of the scheduler *)

(* The types of the adapter's variables; a poll in progress belongs to an   *)
(* AcquireWork.                                                             *)
AdapterType ==
  /\ batch \in [Worker -> Batch \cup {Null}]
  /\ known \in [Worker -> SUBSET Identity]
  /\ lost \in [Worker -> SUBSET Notice]
  /\ \A w \in Worker : poll[w].phase # "idle" => batch[w] # Null

(* Every step of the scheduler but the renewal of a lease; its commit is one *)
(* of them.                                                                 *)
OtherNext ==
  \/ /\ deleting = {}
     /\ \/ Tick \/ Prepare \/ Submit \/ Claim \/ ClearCrashConcern
        \/ Complete \/ Reschedule \/ EndCall \/ Cancel \/ Goals \/ Delete
        \/ \E w \in Worker : Poll(w)
  \/ \E j \in deleting : delete_one_job(j)
  \/ \E j \in Job : commit_renewal(j)

(* A worker renews a lease it was given.                                    *)
KnownRenewal ==
  \E w \in Worker : \E i \in known[w] :
    renew_native_lease(i[1], i[2], w) /\ UNCHANGED adapter /\ deleting = {}

(* What a worker has been given, or is about to be.                         *)
Handed(w) == known[w] \cup (IF batch[w] = Null THEN {} ELSE batch[w].leases)

(* A call under a lease names one of the worker's.                          *)
LEMMA CallStep ==
  ASSUME AdapterType, NEW w \in Worker, NEW i \in known[w], deleting = {},
         \/ ValidateLease(w, i[1], i[2]) \/ KeepAliveLease(w, i[1], i[2])
         \/ CompleteLease(w, i[1], i[2]) \/ RescheduleLease(w, i[1], i[2])
  PROVE  KnownRenewal \/ [OtherNext]_vars
<1>1. i[1] \in Job /\ i[2] \in Lease
  BY DEF AdapterType, Identity
<1>2. CASE ValidateLease(w, i[1], i[2])
  BY <1>2 DEF ValidateLease, refuse
<1>3. CASE KeepAliveLease(w, i[1], i[2])
  BY <1>3 DEF KeepAliveLease, refuse, KnownRenewal
<1>4. CASE CompleteLease(w, i[1], i[2])
  BY <1>1, <1>4 DEF CompleteLease, refuse, OtherNext, Complete
<1>5. CASE RescheduleLease(w, i[1], i[2])
  <2>1. CASE UNCHANGED vars
    BY <2>1
  <2>2. CASE \E req \in Reschedules : reschedule_native_job(req, i[2], w)
    BY <1>1, <2>2 DEF OtherNext, Reschedule
  <2> QED
    BY <1>5, <2>1, <2>2 DEF RescheduleLease, refuse
<1> QED
  BY <1>2, <1>3, <1>4, <1>5

(* CreateJob submits with the goal its preparation reserved, if there is    *)
(* one.                                                                     *)
LEMMA CreateStep ==
  ASSUME CreateJob, deleting = {}
  PROVE  [OtherNext]_vars
<1>1. PICK req \in Submissions :
        \/ resubmit_native_job(req) \/ \E g \in Goal : submit_native_job(req, req.goal, g)
        \/ UNCHANGED vars
  BY DEF CreateJob
<1>2. CASE resubmit_native_job(req) \/ UNCHANGED vars
  BY <1>2 DEF resubmit_native_job
<1>3. ASSUME NEW g \in Goal, submit_native_job(req, req.goal, g) PROVE OtherNext
  <2> DEFINE p == preparations[req.job]
             goal == IF p # Null THEN p.goal ELSE req.goal
  <2>1. goal = req.goal
    BY <1>3 DEF submit_native_job, as_prepared
  <2>2. submit_native_job(req, goal, g)
    BY <1>3, <2>1
  <2>3. Submit
    BY <2>2 DEF Submit
  <2> QED
    BY <2>3 DEF OtherNext
<1> QED
  BY <1>1, <1>2, <1>3

(* Every step of the adapter is a step of the scheduler, and a renewal only *)
(* for a lease the worker knows.                                            *)
LEMMA AdapterStep ==
  ASSUME AdapterType, [RuntimeNext]_avars
  PROVE  KnownRenewal \/ [OtherNext]_vars
<1>1. CASE UNCHANGED avars
  BY <1>1 DEF avars
<1>2. CASE (\E j \in deleting : delete_one_job(j)) \/ \E j \in Job : commit_renewal(j)
  BY <1>2 DEF OtherNext
<1>3. ASSUME deleting = {}, CreateJob PROVE [OtherNext]_vars
  BY <1>3, CreateStep
<1>4. ASSUME deleting = {}, Elsewhere PROVE [OtherNext]_vars
  BY <1>4 DEF Elsewhere, OtherNext, Poll, Complete
<1>5. ASSUME deleting = {}, NEW j \in Cancellable, CancelJob(j) PROVE [OtherNext]_vars
  BY <1>5 DEF CancelJob, OtherNext, Cancel
<1>6. ASSUME deleting = {}, NEW c \in {call} \ {Null}, end_call(c) PROVE [OtherNext]_vars
  BY <1>6 DEF end_call, OtherNext, EndCall
<1>7. ASSUME deleting = {}, NEW w \in Worker,
             get_work(w) \/ got_none(w) \/ \E j \in Job : got_lease(w, j)
      PROVE  [OtherNext]_vars
  BY <1>7 DEF get_work, got_none, got_lease, OtherNext, Poll
<1>8. ASSUME deleting = {}, NEW w \in Worker, NEW req \in Reschedules,
             ClaimTask(w, req.job, req.route)
      PROVE  [OtherNext]_vars
  BY <1>8 DEF ClaimTask, OtherNext, Claim
<1>9. ASSUME deleting = {}, NEW w \in Worker, NEW i \in known[w],
             \/ ValidateLease(w, i[1], i[2]) \/ KeepAliveLease(w, i[1], i[2])
             \/ CompleteLease(w, i[1], i[2]) \/ RescheduleLease(w, i[1], i[2])
      PROVE  KnownRenewal \/ [OtherNext]_vars
  BY <1>9, CallStep
<1>10. ASSUME (\E j \in Job : GetJob(j)) \/ read_detail \/ read_lease \/ read_blocking
       PROVE  UNCHANGED vars
  BY <1>10 DEF GetJob, read_detail, read_lease, read_blocking
<1> QED
  BY <1>1, <1>2, <1>3, <1>4, <1>5, <1>6, <1>7, <1>8, <1>9, <1>10 DEF RuntimeNext

(* In particular it is a step of the scheduler.                             *)
LEMMA SchedulerStep ==
  ASSUME AdapterType, [RuntimeNext]_avars
  PROVE  [Next]_vars
<1>1. CASE KnownRenewal
  <2>1. PICK w \in Worker :
          \E i \in known[w] : renew_native_lease(i[1], i[2], w) /\ deleting = {}
    BY <1>1 DEF KnownRenewal
  <2>2. PICK i \in known[w] : renew_native_lease(i[1], i[2], w) /\ deleting = {}
    BY <2>1
  <2>3. i[1] \in Job /\ i[2] \in Lease
    BY DEF AdapterType, Identity
  <2> QED
    BY <2>2, <2>3 DEF Next, Renew
<1>2. CASE [OtherNext]_vars
  BY <1>2 DEF OtherNext, Next
<1> QED
  BY <1>1, <1>2, AdapterStep

-----------------------------------------------------------------------------
(* Who is given which lease *)

(* The step gives worker w the lease i.                                     *)
Given(w, i) ==
  /\ i \in Identity /\ i[2] = nextLease
  /\ nextLease' = nextLease + 1
  /\ jobs'[i[1]].lease_worker_id = w
  /\ \A k \in Job \ {i[1]} : jobs'[k] = jobs[k]

(* A lease that a poll or a claim takes is given to its worker.             *)
LEMMA GivenLease ==
  ASSUME IInv, NEW w \in Worker, NEW j \in Job, NEW row \in JobRow, row.lease_worker_id = w,
         jobs' = [jobs EXCEPT ![j] = row], nextLease <= MaxLeases, nextLease' = nextLease + 1
  PROVE  Given(w, <<j, nextLease>>)
<1>1. nextLease \in Lease
  BY InputAssumption DEF IInv, TypeOK, Lease
<1>2. jobs'[j] = row /\ \A k \in Job \ {j} : jobs'[k] = jobs[k]
  BY RowReplaced DEF IInv
<1>3. <<j, nextLease>> \in Identity /\ <<j, nextLease>>[1] = j /\ <<j, nextLease>>[2] = nextLease
  BY <1>1 DEF Identity
<1> QED
  BY <1>2, <1>3 DEF Given

(* get_native_work gives its worker the lease it takes.                     *)
LEMMA PolledLease ==
  ASSUME IInv, NEW w \in Worker, NEW j \in Job, poll_lock(w, j)
  PROVE  Given(w, <<j, nextLease>>)
<1> DEFINE row == poll_lease(jobs[j], poll[w].v_now, nextLease, w, LeaseSeconds)
<1>1. /\ jobs[j] # Null /\ nextLease <= MaxLeases /\ nextLease' = nextLease + 1
      /\ jobs' = [jobs EXCEPT ![j] = row]
  BY DEF poll_lock, pollable
<1>2. /\ jobs[j] \in JobRow /\ poll[w].v_now \in Nat
      /\ nextLease \in Nat \ {0} /\ LeaseSeconds \in Nat
  BY <1>1, InputAssumption, TimeAssumption DEF IInv, TypeOK, PollState
<1>3. row \in JobRow
  BY <1>2, PollLeaseType
<1>4. row.lease_worker_id = w
  BY <1>2, PollLeaseFields
<1> HIDE DEF row
<1> QED
  BY <1>1, <1>3, <1>4, GivenLease

(* claim_native_task gives its worker the lease it takes.                   *)
LEMMA ClaimedLease ==
  ASSUME IInv, NEW w \in Worker, NEW j \in Job, NEW route, claim_native_task(w, j, route)
  PROVE  Given(w, <<j, nextLease>>)
<1> DEFINE row == claim_lease(jobs[j], now, nextLease, w, LeaseSeconds)
<1>1. /\ jobs[j] # Null /\ nextLease <= MaxLeases /\ nextLease' = nextLease + 1
      /\ jobs' = [jobs EXCEPT ![j] = row] /\ jobs[j].route.work_kind = "TASK"
  BY DEF claim_native_task
<1>2. /\ jobs[j] \in JobRow /\ RowRoutes(jobs[j]) /\ now \in Nat
      /\ nextLease \in Nat \ {0} /\ LeaseSeconds \in Nat
  BY <1>1, InputAssumption, TimeAssumption, RoutesOfRows DEF IInv, TypeOK
<1>3. jobs[j].route.coordinates # Null
  BY <1>1, <1>2 DEF RowRoutes, native_route_valid
<1>4. row \in JobRow
  BY <1>2, <1>3, ClaimLeaseType
<1>5. row.lease_worker_id = w
  BY <1>2, ClaimLeaseFields
<1> HIDE DEF row
<1> QED
  BY <1>1, <1>4, <1>5, GivenLease

(* Workers forget no lease, and learn only of what the step gives them.     *)
Hands ==
  /\ AdapterType'
  /\ \A w \in Worker :
       /\ known[w] \subseteq known'[w]
       /\ \A i \in Handed(w)' : i \in Handed(w) \/ Given(w, i)

(* A step that leaves batches, known leases and polls alone.                *)
LEMMA NothingHanded ==
  ASSUME AdapterType, UNCHANGED <<batch, known, poll>>, lost' \in [Worker -> SUBSET Notice]
  PROVE  Hands
  BY DEF Hands, AdapterType, Handed

(* AcquireWork, its polls.                                                  *)
LEMMA GetWorkHands ==
  ASSUME IInv, AdapterType, NEW w \in Worker, get_work(w)
  PROVE  Hands
<1>1. /\ known' = known /\ lost' = lost
      /\ poll' = [poll EXCEPT ![w] = [phase |-> "expired", v_now |-> now, found |-> {}]]
  BY DEF get_work, poll_expire
<1>2. \A v \in Worker \ {w} : poll'[v] = poll[v]
  BY <1>1 DEF IInv, TypeOK
<1>3. PICK b \in Batch : \/ batch[w] # Null /\ batch' = batch
                         \/ batch[w] = Null /\ b.leases = {} /\ batch' = [batch EXCEPT ![w] = b]
  <2>1. CASE batch[w] # Null
    BY <2>1 DEF get_work, AdapterType
  <2>2. CASE batch[w] = Null
    <3>1. PICK limit \in Limits : batch' = [batch EXCEPT ![w] = [limit |-> limit, leases |-> {}]]
      BY <2>2 DEF get_work
    <3>2. [limit |-> limit, leases |-> {}] \in Batch
      BY DEF Batch
    <3> QED
      BY <2>2, <3>1, <3>2
  <2> QED
    BY <2>1, <2>2
<1>4. /\ batch' \in [Worker -> Batch \cup {Null}] /\ batch'[w] # Null
      /\ \A v \in Worker : batch'[v] = batch[v] \/ (v = w /\ batch'[v] = b /\ b.leases = {})
  BY <1>3, AnswerAssumption DEF AdapterType
<1>5. AdapterType'
  BY <1>1, <1>2, <1>4 DEF AdapterType
<1>6. \A v \in Worker : Handed(v)' \subseteq Handed(v)
  BY <1>1, <1>4 DEF Handed
<1> QED
  BY <1>1, <1>5, <1>6 DEF Hands

(* A worker learns at most of what it is about to be given.                 *)
Learns(w) ==
  /\ known' \in [Worker -> SUBSET Identity] /\ known[w] \subseteq known'[w]
  /\ \A i \in known'[w] : i \in Handed(w) \/ Given(w, i)
  /\ \A v \in Worker \ {w} : known'[v] = known[v]

(* A batch that is delivered, or dropped, or goes on.                       *)
LEMMA Learning ==
  ASSUME AdapterType, NEW w \in Worker
  PROVE  /\ known' = known => Learns(w)
         /\ \A S \in SUBSET Identity :
              /\ \A i \in S : i \in Handed(w) \/ Given(w, i)
              /\ known' = [known EXCEPT ![w] = @ \cup S]
              => Learns(w)
<1>1. known \in [Worker -> SUBSET Identity] /\ \A i \in known[w] : i \in Handed(w)
  BY DEF AdapterType, Handed
<1>2. ASSUME known' = known PROVE Learns(w)
  BY <1>1, <1>2 DEF Learns
<1>3. ASSUME NEW S \in SUBSET Identity, \A i \in S : i \in Handed(w) \/ Given(w, i),
             known' = [known EXCEPT ![w] = @ \cup S]
      PROVE  Learns(w)
  BY <1>1, <1>3 DEF Learns
<1> QED
  BY <1>2, <1>3

(* The batch of a worker is replaced, the poll of the worker is over.       *)
LEMMA BatchReplaced ==
  ASSUME IInv, AdapterType, NEW w \in Worker, NEW b \in Batch \cup {Null},
         batch' = [batch EXCEPT ![w] = b], release_poll(w),
         Learns(w), lost' = lost,
         b # Null => \A i \in b.leases : i \in Handed(w) \/ Given(w, i)
  PROVE  Hands
<1>1. /\ batch' \in [Worker -> Batch \cup {Null}] /\ batch'[w] = b
      /\ \A v \in Worker \ {w} : batch'[v] = batch[v]
  BY DEF AdapterType
<1>2. /\ known' \in [Worker -> SUBSET Identity] /\ known[w] \subseteq known'[w]
      /\ \A i \in known'[w] : i \in Handed(w) \/ Given(w, i)
      /\ \A v \in Worker \ {w} : known'[v] = known[v]
  BY DEF Learns
<1>3. poll'[w].phase = "idle" /\ \A v \in Worker \ {w} : poll'[v] = poll[v]
  BY DEF IInv, TypeOK, release_poll, IdlePoll
<1>4. AdapterType'
  BY <1>1, <1>2, <1>3 DEF AdapterType
<1>5. \A i \in Handed(w)' : i \in Handed(w) \/ Given(w, i)
  BY <1>1, <1>2 DEF Handed
<1>6. \A v \in Worker \ {w} : Handed(v)' = Handed(v)
  BY <1>1, <1>2 DEF Handed
<1> QED
  BY <1>2, <1>4, <1>5, <1>6 DEF Hands

(* AcquireWork, a job it has leased: the batch goes on, is delivered or is  *)
(* dropped.                                                                 *)
LEMMA GotLeaseHands ==
  ASSUME IInv, AdapterType, NEW w \in Worker, NEW j \in Job, got_lease(w, j)
  PROVE  Hands
<1> DEFINE new == <<j, nextLease>>
           leases == batch[w].leases \cup {new}
<1>1. /\ poll_lock(w, j) /\ lost' = lost
      /\ \/ deliver(w, leases)
         \/ batch' = [batch EXCEPT ![w].leases = leases] /\ known' = known
         \/ batch' = [batch EXCEPT ![w] = Null] /\ known' = known
  BY DEF got_lease
<1>2. release_poll(w) /\ Given(w, new)
  BY <1>1, PolledLease DEF poll_lock
<1>3. batch[w] \in Batch
  BY <1>1 DEF poll_lock, AdapterType
<1>4. leases \in SUBSET Identity /\ \A i \in leases : i \in Handed(w) \/ Given(w, i)
  BY <1>2, <1>3, AnswerAssumption DEF Batch, Given, Handed
<1> HIDE DEF new, leases
<1>5. CASE deliver(w, leases)
  BY <1>1, <1>2, <1>4, <1>5, Learning, BatchReplaced DEF deliver
<1>6. CASE batch' = [batch EXCEPT ![w].leases = leases] /\ known' = known
  <2> DEFINE b == [batch[w] EXCEPT !.leases = leases]
  <2>1. b \in Batch /\ b.leases = leases
    BY <1>3, <1>4 DEF Batch
  <2>2. batch' = [batch EXCEPT ![w] = b]
    BY <1>6
  <2>3. Learns(w)
    BY <1>6, Learning
  <2> HIDE DEF b
  <2> QED
    BY <1>1, <1>2, <1>4, <2>1, <2>2, <2>3, BatchReplaced
<1>7. CASE batch' = [batch EXCEPT ![w] = Null] /\ known' = known
  BY <1>1, <1>2, <1>7, Learning, BatchReplaced
<1> QED
  BY <1>1, <1>5, <1>6, <1>7

(* AcquireWork that finds no more.                                          *)
LEMMA GotNoneHands ==
  ASSUME IInv, AdapterType, NEW w \in Worker, got_none(w)
  PROVE  Hands
<1> DEFINE leases == batch[w].leases
<1>1. /\ poll_none(w) /\ lost' = lost
      /\ \/ deliver(w, leases)
         \/ batch' = [batch EXCEPT ![w] = Null] /\ known' = known
  BY DEF got_none
<1>2. release_poll(w) /\ batch[w] \in Batch
  BY <1>1 DEF poll_none, AdapterType
<1>3. leases \in SUBSET Identity /\ \A i \in leases : i \in Handed(w)
  BY <1>2, AnswerAssumption DEF Batch, Handed
<1> HIDE DEF leases
<1>4. CASE deliver(w, leases)
  BY <1>1, <1>2, <1>3, <1>4, Learning, BatchReplaced DEF deliver
<1>5. CASE batch' = [batch EXCEPT ![w] = Null] /\ known' = known
  BY <1>1, <1>2, <1>5, Learning, BatchReplaced
<1> QED
  BY <1>1, <1>4, <1>5

(* ClaimTask.                                                               *)
LEMMA ClaimTaskHands ==
  ASSUME IInv, AdapterType, NEW w \in Worker, NEW j \in Job, NEW route, ClaimTask(w, j, route)
  PROVE  Hands
<1>1. /\ UNCHANGED <<batch, lost, poll>>
      /\ \/ known' = [known EXCEPT ![w] = @ \cup {<<j, nextLease>>}]
         \/ known' = known
  BY DEF ClaimTask, claim_native_task
<1>2. Given(w, <<j, nextLease>>)
  BY ClaimedLease DEF ClaimTask
<1>3. CASE known' = known
  BY <1>1, <1>3, NothingHanded DEF AdapterType
<1>4. CASE known' = [known EXCEPT ![w] = @ \cup {<<j, nextLease>>}]
  <2> DEFINE new == <<j, nextLease>>
  <2>1. new \in Identity
    BY <1>2 DEF Given
  <2> HIDE DEF new
  <2>2. /\ known' \in [Worker -> SUBSET Identity] /\ known'[w] = known[w] \cup {new}
        /\ \A v \in Worker \ {w} : known'[v] = known[v]
    BY <1>4, <2>1 DEF AdapterType, new
  <2>3. AdapterType'
    BY <1>1, <2>2 DEF AdapterType
  <2>4. \A v \in Worker : \A i \in Handed(v)' : i \in Handed(v) \/ (v = w /\ i = new)
    BY <1>1, <2>2 DEF Handed
  <2> QED
    BY <1>2, <2>2, <2>3, <2>4 DEF Hands, new
<1> QED
  BY <1>1, <1>3, <1>4

(* A call in progress under a lease is under one its worker was given.      *)
CallKnown ==
  call # Null /\ call.lease # 0 =>
    call.worker \in Worker /\ <<call.job, call.lease>> \in known[call.worker]

(* What a worker is told of lost leases.                                    *)
LEMMA Telling ==
  ASSUME AdapterType, NEW w \in Worker, NEW S \in SUBSET Identity, tell_lost(w, S)
  PROVE  /\ lost' \in [Worker -> SUBSET Notice]
         /\ \A v \in Worker : \A n \in lost'[v] : n \notin lost[v] =>
              v = w /\ \E i \in S : n.lease = i[2] /\ n.renewing = renewing(i[1], i[2])
<1> DEFINE N == {[lease |-> i[2], renewing |-> renewing(i[1], i[2])] : i \in S}
<1>1. lost' = [lost EXCEPT ![w] = @ \cup N]
  BY DEF tell_lost
<1>2. \A n \in N : \E i \in S : n.lease = i[2] /\ n.renewing = renewing(i[1], i[2])
  OBVIOUS
<1>3. N \in SUBSET Notice
  <2> SUFFICES ASSUME NEW i \in S
               PROVE  [lease |-> i[2], renewing |-> renewing(i[1], i[2])] \in Notice
    OBVIOUS
  <2>1. i[2] \in Lease
    BY DEF Identity
  <2>2. renewing(i[1], i[2]) \in BOOLEAN
    BY Zenon DEF renewing
  <2> QED
    BY <2>1, <2>2, Zenon DEF Notice
<1> HIDE DEF N
<1> QED
  BY <1>1, <1>2, <1>3 DEF AdapterType

(* The calls made without the adapter.                                      *)
LEMMA ElsewhereHands ==
  ASSUME IInv, AdapterType, CallKnown, Elsewhere
  PROVE  Hands /\ CallKnown'
<1>1. UNCHANGED <<batch, known, lost>>
  BY DEF Elsewhere, adapter
<1>2. CASE \E w \in Worker : poll_snapshot(w)
  <2>1. PICK w \in Worker : poll_snapshot(w)
    BY <1>2
  <2>2. poll[w].phase # "idle" /\ call' = call /\ \A v \in Worker \ {w} : poll'[v] = poll[v]
    BY <2>1 DEF poll_snapshot, IInv, TypeOK
  <2>3. AdapterType'
    BY <1>1, <2>2 DEF AdapterType
  <2> QED
    BY <1>1, <2>2, <2>3 DEF Hands, Handed, CallKnown
<1>3. CASE Tick \/ ClearCrashConcern \/ Delete
  <2>1. UNCHANGED <<poll, call>>
    BY <1>3 DEF Tick, ClearCrashConcern, clear_crash_concern, Delete, delete_native_jobs
  <2>2. CallKnown'
    BY <1>1, <2>1 DEF CallKnown
  <2> QED
    BY <1>1, <2>1, <2>2, NothingHanded DEF AdapterType
<1>4. CASE \E j \in Job, outcome \in Completions : complete_native_unheld_job(j, outcome)
  <2>1. poll' = poll /\ call'.lease = 0
    BY <1>4 DEF complete_native_unheld_job, lock_job_for_status
  <2>2. CallKnown'
    BY <2>1 DEF CallKnown
  <2> QED
    BY <1>1, <2>1, <2>2, NothingHanded DEF AdapterType
<1> QED
  BY <1>2, <1>3, <1>4 DEF Elsewhere

(* The calls under a lease: whoever is let through knows the lease, whoever *)
(* is refused is told of a lease that was issued.                           *)
LEMMA CallHands ==
  ASSUME IInv, AdapterType, CallKnown, NEW w \in Worker, NEW i \in known[w],
         \/ ValidateLease(w, i[1], i[2]) \/ KeepAliveLease(w, i[1], i[2])
         \/ CompleteLease(w, i[1], i[2]) \/ RescheduleLease(w, i[1], i[2])
  PROVE  Hands /\ CallKnown'
<1>1. i[1] \in Job /\ i[2] \in Lease /\ i = <<i[1], i[2]>>
  BY DEF AdapterType, Identity
<1>2. CASE refuse(w, i[1], i[2])
  <2>1. UNCHANGED <<batch, known, poll, call>> /\ tell_lost(w, {<<i[1], i[2]>>})
    BY <1>2 DEF refuse, vars
  <2>2. {<<i[1], i[2]>>} \in SUBSET Identity
    BY <1>1 DEF Identity
  <2>3. lost' \in [Worker -> SUBSET Notice]
    BY <2>1, <2>2, Telling
  <2> QED
    BY <2>1, <2>3, NothingHanded DEF CallKnown
<1>3. CASE UNCHANGED adapter
  <2>1. UNCHANGED <<batch, known, lost>>
    BY <1>3 DEF adapter
  <2>2. \/ call' = call
        \/ call'.job = i[1] /\ call'.lease = i[2] /\ call'.worker = w
        \/ refuse(w, i[1], i[2])
    <3>1. CASE ValidateLease(w, i[1], i[2])
      BY <3>1 DEF ValidateLease
    <3>2. CASE KeepAliveLease(w, i[1], i[2])
      BY <3>2 DEF KeepAliveLease, renew_native_lease
    <3>3. CASE CompleteLease(w, i[1], i[2])
      BY <3>3 DEF CompleteLease, complete_native_job, lock_job_for_status
    <3>4. CASE RescheduleLease(w, i[1], i[2])
      BY <3>4 DEF RescheduleLease, reschedule_native_job, lock_job_for_status
    <3> QED
      BY <3>1, <3>2, <3>3, <3>4
  <2>3. CASE refuse(w, i[1], i[2])
    BY <1>2, <2>3
  <2>4. CASE ~refuse(w, i[1], i[2])
    <3>1. CallKnown'
      BY <1>1, <2>1, <2>2, <2>4 DEF CallKnown
    <3>2. poll' = poll
      BY <2>4 DEF ValidateLease, KeepAliveLease, renew_native_lease, CompleteLease,
         complete_native_job, RescheduleLease, reschedule_native_job, lock_job_for_status
    <3> QED
      BY <2>1, <3>1, <3>2, NothingHanded DEF AdapterType
  <2> QED
    BY <2>3, <2>4
<1> QED
  BY <1>2, <1>3 DEF ValidateLease, KeepAliveLease, CompleteLease, RescheduleLease

(* The end of a call: a worker is told only of a lease it was given.        *)
LEMMA EndCallHands ==
  ASSUME IInv, AdapterType, CallKnown, NEW c \in {call} \ {Null}, end_call(c)
  PROVE  Hands /\ CallKnown'
<1>1. UNCHANGED <<batch, known, poll>> /\ call' = Null
  BY DEF end_call, complete_native_locked_job, reschedule_locked_job, roll_back_call
<1>2. lost' \in [Worker -> SUBSET Notice]
  <2>1. CASE lost' = lost
    BY <2>1 DEF AdapterType
  <2>2. CASE ~still_authorised(c) /\ tell_lost(c.worker, {<<c.job, c.lease>>})
    <3>1. c.worker \in Worker /\ <<c.job, c.lease>> \in known[c.worker]
      BY <2>2 DEF CallKnown, still_authorised
    <3>2. {<<c.job, c.lease>>} \in SUBSET Identity
      BY <3>1 DEF AdapterType
    <3> QED
      BY <2>2, <3>1, <3>2, Telling
  <2> QED
    BY <2>1, <2>2 DEF end_call
<1>3. CallKnown'
  BY <1>1 DEF CallKnown
<1> QED
  BY <1>1, <1>2, <1>3, NothingHanded

(* Every step of the adapter.                                               *)
LEMMA HandsStep ==
  ASSUME IInv, AdapterType, CallKnown, [RuntimeNext]_avars
  PROVE  Hands /\ CallKnown'
<1>1. ASSUME UNCHANGED <<batch, known, lost, poll, call>> PROVE Hands /\ CallKnown'
  <2>1. CallKnown'
    BY <1>1 DEF CallKnown
  <2> QED
    BY <1>1, <2>1, NothingHanded DEF AdapterType
<1>2. ASSUME Hands, call' = call PROVE CallKnown'
  BY <1>2 DEF CallKnown, Hands
<1>3. CASE UNCHANGED avars
  BY <1>1, <1>3 DEF avars, vars, adapter
<1>4. ASSUME NEW j \in Job, delete_one_job(j) \/ commit_renewal(j), UNCHANGED adapter
      PROVE  Hands /\ CallKnown'
  BY <1>1, <1>4 DEF delete_one_job, commit_renewal, adapter
<1>5. CASE CreateJob
  <2>1. /\ UNCHANGED <<batch, known, poll, call>>
        /\ lost' = lost \/ \E w \in Worker : \E k : tell_lost(w, {i \in known[w] : i[1] = k})
    BY <1>5 DEF CreateJob, resubmit_native_job, submit_native_job, vars
  <2>2. lost' \in [Worker -> SUBSET Notice]
    <3>1. ASSUME NEW w \in Worker, NEW k, tell_lost(w, {i \in known[w] : i[1] = k})
          PROVE  lost' \in [Worker -> SUBSET Notice]
      <4>1. {i \in known[w] : i[1] = k} \in SUBSET Identity
        BY DEF AdapterType
      <4> QED
        BY <3>1, <4>1, Telling
    <3> QED
      BY <2>1, <3>1 DEF AdapterType
  <2> QED
    BY <2>1, <2>2, NothingHanded DEF CallKnown
<1>6. ASSUME NEW j \in Cancellable, CancelJob(j) PROVE Hands /\ CallKnown'
  BY <1>1, <1>6 DEF CancelJob, cancel_native_job
<1>7. ASSUME NEW w \in Worker, get_work(w) \/ got_none(w) \/ \E j \in Job : got_lease(w, j)
      PROVE  Hands /\ CallKnown'
  <2>1. Hands
    BY <1>7, GetWorkHands, GotNoneHands, GotLeaseHands
  <2>2. call' = call
    BY <1>7 DEF get_work, got_none, got_lease, poll_expire, poll_none, poll_lock
  <2> QED
    BY <1>2, <2>1, <2>2
<1>8. ASSUME NEW w \in Worker, NEW req \in Reschedules, ClaimTask(w, req.job, req.route)
      PROVE  Hands /\ CallKnown'
  <2>1. req.job \in Job
    BY InputAssumption DEF RescheduleRequest
  <2>2. Hands
    BY <1>8, <2>1, ClaimTaskHands
  <2>3. call' = call
    BY <1>8 DEF ClaimTask, claim_native_task
  <2> QED
    BY <1>2, <2>2, <2>3
<1>9. ASSUME (\E j \in Job : GetJob(j)) \/ read_detail \/ read_lease \/ read_blocking
      PROVE  Hands /\ CallKnown'
  BY <1>1, <1>9 DEF GetJob, read_detail, read_lease, read_blocking, vars
<1>10. \A j \in deleting : j \in Job
  BY DEF IInv, TypeOK
<1> QED
  BY <1>3, <1>4, <1>5, <1>6, <1>7, <1>8, <1>9, <1>10, ElsewhereHands, CallHands, EndCallHands
  DEF RuntimeNext

(* The adapter is a client of the scheduler: whatever its workers and       *)
(* clients do, what happens to the tables is a behaviour of the scheduler,  *)
(* and everything proved of the scheduler holds of the runtime.             *)
THEOREM RuntimeImplementsScheduler == RuntimeSpec => Spec
<1> DEFINE Inv == IInv /\ AdapterType /\ CallKnown
<1>1. RuntimeInit => Inv /\ Init
  BY InitInv, AnswerAssumption DEF RuntimeInit, Init, AdapterType, CallKnown, IdlePoll
<1>2. Inv /\ [RuntimeNext]_avars => Inv' /\ [Next]_vars
  BY HandsStep, SchedulerStep, NextInv DEF Hands
<1> HIDE DEF Inv
<1> QED
  BY <1>1, <1>2, PTL DEF RuntimeSpec, Spec

(* The adapter's own invariants hold in every reachable state.              *)
LEMMA AdapterInvariance == RuntimeSpec => [](IInv /\ AdapterType /\ CallKnown)
<1> DEFINE Inv == IInv /\ AdapterType /\ CallKnown
<1>1. RuntimeInit => Inv
  BY InitInv, AnswerAssumption DEF RuntimeInit, Init, AdapterType, CallKnown, IdlePoll
<1>2. Inv /\ [RuntimeNext]_avars => Inv'
  BY HandsStep, SchedulerStep, NextInv DEF Hands
<1> QED
  BY <1>1, <1>2, PTL DEF RuntimeSpec

-----------------------------------------------------------------------------
(* Lost leases *)

(* The lease was issued, for this job and this worker and nobody else.      *)
Issued(w, i) ==
  /\ i[2] < nextLease
  /\ \A k \in Job : jobs[k] # Null /\ jobs[k].lease_id = i[2] =>
       k = i[1] /\ jobs[k].lease_worker_id = w

(* Whatever a worker was given was issued to it, and what it was told it    *)
(* lost was issued and is not valid, unless a renewal was under way.        *)
HandedInv ==
  /\ \A w \in Worker : \A i \in Handed(w) : Issued(w, i)
  /\ \A w \in Worker : \A notice \in lost[w] : notice.lease < nextLease
  /\ LostIsLost

(* What a worker may be given is the identity of a lease.                   *)
LEMMA HandedType ==
  ASSUME AdapterType, NEW w \in Worker, NEW i \in Handed(w)
  PROVE  i \in Identity /\ i[1] \in Job /\ i[2] \in Nat \ {0}
<1>1. i \in Identity
  BY DEF AdapterType, Handed, Batch
<1>2. i[1] \in Job /\ i[2] \in 1 .. MaxLeases
  BY <1>1 DEF Identity, Lease
<1> QED
  BY <1>1, <1>2, InputAssumption

(* A lease stays with its job and its worker.                               *)
LEMMA IssuedKept ==
  ASSUME IInv, ControlInv, [Next]_vars, NEW w, NEW i, i[2] \in Nat \ {0}, Issued(w, i)
  PROVE  Issued(w, i)'
<1>1. nextLease \in Nat /\ nextLease' \in {nextLease, nextLease + 1}
  BY LeaseRows DEF IInv, TypeOK
<1>2. i[2] < nextLease'
  BY <1>1 DEF Issued
<1>3. ASSUME NEW k \in Job, jobs'[k] # Null, jobs'[k].lease_id = i[2]
      PROVE  k = i[1] /\ jobs'[k].lease_worker_id = w
  <2>1. LeaseRow(k)
    BY LeaseRows
  <2>2. jobs[k] # Null /\ KeepsHolder(jobs'[k], jobs[k])
    BY <1>1, <1>3, <2>1 DEF LeaseRow, Issued
  <2> QED
    BY <1>3, <2>2 DEF KeepsHolder, Issued
<1> QED
  BY <1>2, <1>3 DEF Issued

(* A lease the step gives is issued to the worker it is given to.           *)
LEMMA GivenIssued ==
  ASSUME IInv, LeaseInv, NEW w, NEW i, Given(w, i)
  PROVE  Issued(w, i)'
<1>1. nextLease \in Nat /\ i[2] = nextLease /\ nextLease' = nextLease + 1
  BY DEF IInv, TypeOK, Given
<1>2. ASSUME NEW k \in Job, jobs'[k] # Null, jobs'[k].lease_id = i[2]
      PROVE  k = i[1] /\ jobs'[k].lease_worker_id = w
  <2>1. CASE k # i[1]
    <3>1. jobs[k] # Null /\ jobs[k].lease_id = nextLease
      BY <1>1, <1>2, <2>1 DEF Given
    <3> QED
      BY <1>1, <3>1 DEF LeaseInv
  <2> QED
    BY <2>1 DEF Given
<1> QED
  BY <1>1, <1>2 DEF Issued

(* A lease is valid for the worker and the job it was issued for, or for    *)
(* nobody.                                                                  *)
LEMMA HeldByIssued ==
  ASSUME NEW w, NEW i, Issued(w, i), LeaseHeld(i[2])
  PROVE  lease_valid(jobs[i[1]], i[2], w)
  BY DEF Issued, LeaseHeld, lease_valid

(* A notice that names a lease rightly.                                     *)
Right(n) == n.lease < nextLease /\ (LeaseHeld(n.lease) => n.renewing)

(* Whoever reads a row without locking it and finds no valid lease is right *)
(* unless a renewal is under way, whoever has locked it is right.           *)
LEMMA RightlyRefused ==
  ASSUME NEW w, NEW i, Issued(w, i),
         \/ ~validate_native_lease(i[1], i[2], w)
         \/ ~extend_allowed(i[1], i[2], w)
         \/ jobs[i[1]].lease_worker_id # w \/ ~(jobs[i[1]].lease_expires_at > now)
         \/ jobs[i[1]] = Null,
         NEW n, n.lease = i[2], n.renewing = renewing(i[1], i[2])
  PROVE  Right(n)
<1>1. n.lease < nextLease
  BY DEF Issued
<1>2. ASSUME LeaseHeld(n.lease) PROVE renewing(i[1], i[2])
  <2>1. lease_valid(jobs[i[1]], i[2], w)
    BY <1>2, HeldByIssued
  <2>2. ~validate_native_lease(i[1], i[2], w)
    BY <2>1 DEF lease_valid, extend_allowed
  <2>3. read_row(i[1]) # jobs[i[1]]
    BY <2>1, <2>2 DEF validate_native_lease
  <2> QED
    BY <2>1, <2>3 DEF read_row, renewing, lease_valid
<1> QED
  BY <1>1, <1>2, Zenon DEF Right

(* A worker is told that it lost a lease only rightly.                      *)
LEMMA ToldOfLost ==
  ASSUME IInv, AdapterType, CallKnown, NothingWaitsForFinished, HandedInv, [RuntimeNext]_avars,
         NEW w \in Worker, NEW n \in lost'[w], n \notin lost[w]
  PROVE  Right(n) /\ UNCHANGED <<jobs, now, nextLease>>
<1>1. ASSUME NEW v \in Worker, NEW i \in known[v], refuse(v, i[1], i[2]),
             ~validate_native_lease(i[1], i[2], v) \/ ~extend_allowed(i[1], i[2], v)
      PROVE  Right(n) /\ UNCHANGED <<jobs, now, nextLease>>
  <2>1. i \in Identity /\ i = <<i[1], i[2]>>
    BY DEF AdapterType, Identity
  <2>2. tell_lost(v, {i}) /\ UNCHANGED <<jobs, now, nextLease>>
    BY <1>1, <2>1 DEF refuse, vars, tables
  <2>3. n.lease = i[2] /\ n.renewing = renewing(i[1], i[2])
    BY <2>1, <2>2, Telling
  <2>4. Issued(v, i)
    BY DEF HandedInv, Handed
  <2> QED
    BY <1>1, <2>2, <2>3, <2>4, RightlyRefused
<1>2. ASSUME NEW c \in {call} \ {Null}, end_call(c)
      PROVE  Right(n) /\ UNCHANGED <<jobs, now, nextLease>>
  <2> DEFINE i == <<c.job, c.lease>>
  <2>1. roll_back_call /\ ~still_authorised(c) /\ tell_lost(c.worker, {i})
    BY <1>2 DEF end_call
  <2>2. c.worker \in Worker /\ i \in known[c.worker]
    BY <2>1 DEF CallKnown, still_authorised
  <2>3. {i} \in SUBSET Identity
    BY <2>2 DEF AdapterType
  <2>4. n.lease = i[2] /\ n.renewing = renewing(i[1], i[2])
    BY <2>1, <2>2, <2>3, Telling
  <2>5. Issued(c.worker, i)
    BY <2>2 DEF HandedInv, Handed
  <2>6. jobs[i[1]].lease_worker_id # c.worker \/ ~(jobs[i[1]].lease_expires_at > now)
    BY <2>1 DEF still_authorised
  <2>7. UNCHANGED <<jobs, now, nextLease>>
    BY <2>1 DEF roll_back_call, tables
  <2> HIDE DEF i
  <2> QED
    BY <2>4, <2>5, <2>6, <2>7, RightlyRefused
<1>3. CASE CreateJob
  <2>1. PICK req \in Submissions, v \in Worker :
          /\ parent_deleted(req) /\ UNCHANGED vars
          /\ tell_lost(v, {i \in known[v] : i[1] = req.parent})
    BY <1>3 DEF CreateJob, refuse_child
  <2> DEFINE S == {i \in known[v] : i[1] = req.parent}
  <2>2. S \in SUBSET Identity
    BY DEF AdapterType
  <2>3. PICK i \in S : n.lease = i[2] /\ n.renewing = renewing(i[1], i[2])
    BY <2>1, <2>2, Telling
  <2>4. Issued(v, i)
    BY DEF HandedInv, Handed
  <2>5. i[1] \in Job
    BY <2>2 DEF Identity
  <2>6. jobs[i[1]] = Null
    BY <2>1, <2>5 DEF parent_deleted, NothingWaitsForFinished
  <2> QED
    BY <2>1, <2>3, <2>4, <2>6, RightlyRefused DEF vars, tables
<1>4. lost' # lost
  OBVIOUS
<1>5. ASSUME NEW v \in Worker, NEW i \in known[v],
             \/ ValidateLease(v, i[1], i[2]) \/ KeepAliveLease(v, i[1], i[2])
             \/ CompleteLease(v, i[1], i[2]) \/ RescheduleLease(v, i[1], i[2])
      PROVE  refuse(v, i[1], i[2])
             /\ (~validate_native_lease(i[1], i[2], v) \/ ~extend_allowed(i[1], i[2], v))
  BY <1>4, <1>5 DEF ValidateLease, KeepAliveLease, CompleteLease, RescheduleLease, adapter
<1> QED
  BY <1>1, <1>2, <1>3, <1>4, <1>5 DEF RuntimeNext, avars, adapter, Elsewhere, CancelJob,
     get_work, got_none, got_lease, ClaimTask, GetJob, read_detail, read_lease, read_blocking

(* Every step keeps what was handed out issued and what was lost lost.      *)
LEMMA HandedStep ==
  ASSUME IInv, ControlInv, LeaseInv, NothingWaitsForFinished, AdapterType, CallKnown, HandedInv,
         [RuntimeNext]_avars
  PROVE  HandedInv'
<1>1. [Next]_vars
  BY SchedulerStep
<1>2. \A w \in Worker : \A i \in Handed(w)' : i \in Handed(w) \/ Given(w, i)
  BY HandsStep DEF Hands
<1>3. ASSUME NEW w \in Worker, NEW i \in Handed(w)' PROVE Issued(w, i)'
  <2>1. CASE i \in Handed(w)
    <3>1. i[2] \in Nat \ {0} /\ Issued(w, i)
      BY <2>1, HandedType DEF HandedInv
    <3> QED
      BY <1>1, <3>1, IssuedKept
  <2>2. CASE Given(w, i)
    BY <2>2, GivenIssued
  <2> QED
    BY <1>2, <1>3, <2>1, <2>2
<1>4. nextLease \in Nat /\ nextLease' \in {nextLease, nextLease + 1}
  BY <1>1, LeaseRows DEF IInv, TypeOK
<1>5. ASSUME NEW w \in Worker, NEW n \in lost'[w]
      PROVE  n.lease < nextLease' /\ (LeaseHeld(n.lease)' => n.renewing)
  <2>1. CASE n \in lost[w]
    <3>1. n.lease \in 1 .. MaxLeases /\ MaxLeases \in Nat
      BY <2>1, InputAssumption DEF AdapterType, Notice, Lease
    <3>2. n.lease < nextLease /\ (LeaseHeld(n.lease) => n.renewing)
      BY <2>1 DEF HandedInv, LostIsLost
    <3>3. n.lease \in 1 .. nextLease - 1
      BY <1>4, <3>1, <3>2
    <3>4. LeaseHeld(n.lease)' => LeaseHeld(n.lease)
      BY <1>1, <3>3, LeaseEnded
    <3>5. LeaseHeld(n.lease)' => n.renewing
      BY <3>2, <3>4, Zenon
    <3> QED
      BY <1>4, <3>1, <3>2, <3>5
  <2>2. CASE n \notin lost[w]
    <3>1. Right(n) /\ UNCHANGED <<jobs, now, nextLease>>
      BY <1>5, <2>2, ToldOfLost
    <3>2. LeaseHeld(n.lease)' => LeaseHeld(n.lease)
      BY <3>1 DEF LeaseHeld, lease_valid
    <3> QED
      BY <3>1, <3>2, Zenon DEF Right
  <2> QED
    BY <2>1, <2>2
<1> QED
  BY <1>3, <1>5 DEF HandedInv, LostIsLost

(* The runtime's leases are issued, and the lost ones are lost.             *)
LEMMA HandedInvariance == RuntimeSpec => []HandedInv
<1>1. RuntimeInit => HandedInv
  BY DEF RuntimeInit, HandedInv, Handed, LostIsLost
<1>2. /\ IInv /\ ControlInv /\ LeaseInv /\ NothingWaitsForFinished
      /\ AdapterType /\ CallKnown /\ HandedInv /\ [RuntimeNext]_avars
      => HandedInv'
  BY HandedStep
<1> QED
  BY <1>1, <1>2, RuntimeImplementsScheduler, AdapterInvariance, Control, LeasesInOrder,
     NobodyWaitsForFinished, PTL DEF RuntimeSpec

(* A worker that is told it lost a lease while no heartbeat of it is under  *)
(* way can rely on it: no refused validation, heartbeat, completion,        *)
(* rescheduling or creation of a child names a lease that is or will again  *)
(* be valid.  A heartbeat, and the check of a rescheduling on the locked    *)
(* row, name none in any case: they wait for the renewal.                   *)
THEOREM LostLeasesAreLost == RuntimeSpec => []LostIsLost
  BY HandedInvariance, PTL DEF HandedInv

-----------------------------------------------------------------------------
(* Leases nobody heard of *)

(* The step does not move the expiry of the job's lease.                    *)
ExpiryKept(j) ==
  jobs[j] # Null /\ jobs[j].lease_id # 0 /\ jobs'[j] # Null =>
    \/ jobs'[j].lease_id # jobs[j].lease_id
    \/ jobs'[j].lease_expires_at = jobs[j].lease_expires_at

(* A new lease is not the old one.                                          *)
LEMMA NewLeaseKept ==
  ASSUME IInv, LeaseInv, NEW w, NEW i, Given(w, i), jobs'[i[1]].lease_id = nextLease,
         NEW j \in Job
  PROVE  ExpiryKept(j)
<1>1. CASE j # i[1]
  BY <1>1 DEF Given, ExpiryKept
<1>2. CASE j = i[1]
  <2> SUFFICES ASSUME jobs[j] # Null PROVE jobs'[j].lease_id # jobs[j].lease_id
    BY DEF ExpiryKept
  <2>1. jobs[j].lease_id \in Nat /\ nextLease \in Nat /\ jobs[j].lease_id < nextLease
    BY LeaseParts DEF LeaseInv, IInv, TypeOK
  <2> QED
    BY <1>2, <2>1
<1> QED
  BY <1>1, <1>2

(* Archiving a job takes its own lease away and no other.                   *)
LEMMA ArchivedKept ==
  ASSUME IInv, NEW j \in Job, NEW outcome, archive_job(j, outcome), NEW k \in Job
  PROVE  ExpiryKept(k)
<1> SUFFICES ASSUME jobs[k] # Null, jobs'[k] # Null
             PROVE  jobs'[k].lease_expires_at = jobs[k].lease_expires_at
  BY DEF ExpiryKept
<1>1. jobs'[k] = forget_completed(jobs[k], j, now) /\ jobs[k] \in JobRow
  BY DEF archive_job, update_waiters_for_completion, IInv, TypeOK
<1> QED
  BY <1>1, ForgetCompletedFields

(* Nothing but a renewal moves the expiry of a lease.                       *)
LEMMA OnlyRenewalsProlong ==
  ASSUME IInv, ControlInv, LeaseInv, OneHome, [OtherNext]_vars, NEW j \in Job
  PROVE  ExpiryKept(j)
<1>1. ASSUME jobs' = jobs PROVE ExpiryKept(j)
  BY <1>1 DEF ExpiryKept
<1>2. CASE \/ Tick \/ Prepare \/ Complete \/ Reschedule \/ Goals \/ Delete
           \/ (\E k \in Job : commit_renewal(k)) \/ UNCHANGED vars
  <2>1. jobs' = jobs
    BY <1>2 DEF Tick, Prepare, prepare_job, reprepare_job, Complete, complete_native_job,
       complete_native_unheld_job, Reschedule, reschedule_native_job, lock_job_for_status,
       Goals, add_goal_candidate, fail_goal, Delete, delete_native_jobs, commit_renewal,
       vars, tables
  <2> QED
    BY <1>1, <2>1
<1>3. CASE Submit
  <2>1. PICK req \in Submissions :
          /\ facts[req.job] = Null
          /\ jobs' = [jobs EXCEPT ![req.job] =
                        submitted_row(req, normalize_wait_for(req.wait_for), now)]
    BY <1>3 DEF Submit, submit_native_job, first_submission
  <2>2. jobs[j] = Null \/ jobs'[j] = jobs[j]
    BY <2>1 DEF OneHome, IInv, TypeOK
  <2> QED
    BY <2>2 DEF ExpiryKept
<1>4. CASE Claim
  <2>1. PICK w \in Worker, req \in Reschedules : claim_native_task(w, req.job, req.route)
    BY <1>4 DEF Claim
  <2>2. req.job \in Job
    BY InputAssumption DEF RescheduleRequest
  <2> DEFINE k == req.job
             row == claim_lease(jobs[k], now, nextLease, w, LeaseSeconds)
  <2>3. jobs[k] \in JobRow /\ jobs' = [jobs EXCEPT ![k] = row]
    BY <2>1, <2>2 DEF claim_native_task, IInv, TypeOK
  <2>4. row.lease_id = nextLease
    BY <2>3, ClaimLeaseFields
  <2>5. Given(w, <<k, nextLease>>)
    BY <2>1, <2>2, ClaimedLease
  <2> HIDE DEF row
  <2>6. jobs'[<<k, nextLease>>[1]].lease_id = nextLease
    BY <2>2, <2>3, <2>4 DEF IInv, TypeOK
  <2> QED
    BY <2>5, <2>6, NewLeaseKept
<1>5. ASSUME NEW w \in Worker, Poll(w) PROVE ExpiryKept(j)
  <2>1. CASE poll_expire(w) \/ poll_snapshot(w) \/ poll_none(w)
    BY <1>1, <2>1 DEF poll_expire, poll_snapshot, poll_none, tables
  <2>2. ASSUME NEW k \in Job, poll_lock(w, k) PROVE ExpiryKept(j)
    <3> DEFINE row == poll_lease(jobs[k], poll[w].v_now, nextLease, w, LeaseSeconds)
    <3>1. jobs[k] \in JobRow /\ jobs' = [jobs EXCEPT ![k] = row]
      BY <2>2 DEF poll_lock, pollable, IInv, TypeOK
    <3>2. row.lease_id = nextLease
      BY <3>1, PollLeaseFields
    <3>3. Given(w, <<k, nextLease>>)
      BY <2>2, PolledLease
    <3> HIDE DEF row
    <3>4. jobs'[<<k, nextLease>>[1]].lease_id = nextLease
      BY <3>1, <3>2 DEF IInv, TypeOK
    <3> QED
      BY <3>3, <3>4, NewLeaseKept
  <2> QED
    BY <1>5, <2>1, <2>2 DEF Poll
<1>6. CASE ClearCrashConcern
  <2>1. PICK k \in Job : clear_crash_concern(k)
    BY <1>6 DEF ClearCrashConcern
  <2> DEFINE row == [jobs[k] EXCEPT !.consecutive_expirations = 0]
  <2>2. jobs[k] \in JobRow /\ jobs' = [jobs EXCEPT ![k] = row]
    BY <2>1 DEF clear_crash_concern, IInv, TypeOK
  <2>3. row.lease_expires_at = jobs[k].lease_expires_at
    BY <2>2, ClearedRowFields
  <2> HIDE DEF row
  <2> QED
    BY <2>2, <2>3 DEF ExpiryKept, IInv, TypeOK
<1>7. CASE EndCall
  <2>1. CASE roll_back_call
    BY <1>1, <2>1 DEF roll_back_call, tables
  <2>2. ASSUME NEW c \in {call} \ {Null}, complete_native_locked_job(c) PROVE ExpiryKept(j)
    <3>1. c.job \in Job
      BY DEF IInv, TypeOK, Call
    <3> QED
      BY <2>2, <3>1, ArchivedKept DEF complete_native_locked_job
  <2>3. ASSUME NEW c \in {call} \ {Null}, reschedule_locked_job(c) PROVE ExpiryKept(j)
    <3>1. Moves(c)
      BY <2>3 DEF Moves, IInv, CallInv
    <3> DEFINE k == c.job
    <3>2. jobs'[k].lease_id = 0 /\ \A m \in Job \ {k} : jobs'[m] = jobs[m]
      BY <3>1, MovesEffect
    <3> HIDE DEF k
    <3> QED
      BY <3>2 DEF ExpiryKept
  <2> QED
    BY <1>7, <2>1, <2>2, <2>3 DEF EndCall
<1>8. CASE Cancel
  BY <1>8, ArchivedKept, InputAssumption DEF Cancel, cancel_native_job
<1>9. ASSUME NEW k \in deleting, delete_one_job(k) PROVE ExpiryKept(j)
  <2>1. k \in Job
    BY DEF IInv, TypeOK
  <2> QED
    BY <1>1, <1>9, <2>1, ArchivedKept DEF delete_one_job
<1> QED
  BY <1>2, <1>3, <1>4, <1>5, <1>6, <1>7, <1>8, <1>9 DEF OtherNext

(* No worker has been or is about to be given an undelivered lease.         *)
LEMMA UndeliveredHanded ==
  ASSUME AdapterType, NEW lease, undelivered(lease), NEW w \in Worker, NEW i \in Handed(w)
  PROVE  i[2] # lease
<1>1. i \in Identity
  BY HandedType
<1>2. i[1] \in Job /\ i = <<i[1], i[2]>>
  BY <1>1 DEF Identity
<1> QED
  BY <1>2 DEF undelivered, Handed

(* A lease whose answer was lost runs out: nobody learns of it later, and   *)
(* no heartbeat under another lease prolongs it.                            *)
THEOREM DroppedLeasesRunOut == RuntimeSpec => DroppedLeaseRunsOut
<1> DEFINE Final ==
      \A lease \in Lease :
        lease < nextLease /\ undelivered(lease) =>
          /\ undelivered(lease)'
          /\ \A j \in Job :
               jobs[j] # Null /\ jobs[j].lease_id = lease /\ jobs'[j] # Null =>
                 jobs'[j].lease_id # lease
                   \/ jobs'[j].lease_expires_at = jobs[j].lease_expires_at
<1>1. ASSUME IInv, ControlInv, LeaseInv, OneHome, AdapterType, CallKnown, [RuntimeNext]_avars
      PROVE  Final
  <2> SUFFICES ASSUME NEW lease \in Lease, lease < nextLease, undelivered(lease)
               PROVE  /\ undelivered(lease)'
                      /\ \A j \in Job :
                           jobs[j] # Null /\ jobs[j].lease_id = lease /\ jobs'[j] # Null =>
                             jobs'[j].lease_id # lease
                               \/ jobs'[j].lease_expires_at = jobs[j].lease_expires_at
    OBVIOUS
  <2>1. lease \in Nat \ {0} /\ nextLease \in Nat
    BY <1>1, InputAssumption DEF Lease, IInv, TypeOK
  <2>2. \A w \in Worker : \A i \in Handed(w) : i[2] # lease
    BY <1>1, UndeliveredHanded
  <2>3. AdapterType' /\ \A w \in Worker : \A i \in Handed(w)' : i \in Handed(w) \/ Given(w, i)
    BY <1>1, HandsStep DEF Hands
  <2>4. \A w \in Worker : \A i \in Handed(w)' : i[2] # lease
    BY <2>1, <2>2, <2>3 DEF Given
  <2>5. undelivered(lease)'
    <3>1. \A w \in Worker, j \in Job : <<j, lease>> \notin Handed(w)'
      BY <2>4
    <3> QED
      BY <3>1 DEF undelivered, Handed
  <2>6. ASSUME NEW j \in Job, jobs[j] # Null, jobs[j].lease_id = lease, jobs'[j] # Null
        PROVE  \/ jobs'[j].lease_id # lease
               \/ jobs'[j].lease_expires_at = jobs[j].lease_expires_at
    <3>1. CASE [OtherNext]_vars
      BY <1>1, <2>1, <2>6, <3>1, OnlyRenewalsProlong DEF ExpiryKept
    <3>2. CASE KnownRenewal
      <4>1. PICK w \in Worker : \E i \in known[w] : renew_native_lease(i[1], i[2], w)
        BY <3>2 DEF KnownRenewal
      <4>2. PICK i \in known[w] : renew_native_lease(i[1], i[2], w)
        BY <4>1
      <4>3. i \in Handed(w) /\ i[1] \in Job
        BY <1>1, HandedType DEF Handed
      <4>4. jobs[i[1]].lease_id = i[2]
            /\ jobs' = [jobs EXCEPT ![i[1]].lease_expires_at = now + LeaseSeconds]
        BY <4>2 DEF renew_native_lease, extend_lease, extend_allowed
      <4>5. j # i[1]
        BY <2>2, <2>6, <4>3, <4>4
      <4> QED
        BY <1>1, <4>4, <4>5 DEF IInv, TypeOK
    <3> QED
      BY <1>1, <3>1, <3>2, AdapterStep
  <2> QED
    BY <2>5, <2>6
<1>2. /\ IInv /\ ControlInv /\ LeaseInv /\ OneHome /\ AdapterType /\ CallKnown
      /\ [RuntimeNext]_avars
      => [Final]_avars
  BY <1>1
<1> HIDE DEF Final
<1>3. RuntimeSpec => [][Final]_avars
  BY <1>2, RuntimeImplementsScheduler, AdapterInvariance, Control, LeasesInOrder,
     EveryJobHasOneHome, PTL DEF RuntimeSpec
<1> QED
  BY <1>3 DEF DroppedLeaseRunsOut, Final

-----------------------------------------------------------------------------
(* Answers *)

(* What the caller was told of its job is true of the tables.               *)
ToldTrue ==
  reader.phase # "idle" =>
    /\ reader.job \in Job
    /\ reader.exists => facts[reader.job] # Null
    /\ reader.outcome # Null =>
         archive[reader.job] # Null /\ archive[reader.job].status = reader.outcome

(* What has been read so far agrees with what the caller was told, and an   *)
(* archived job that was read is archived.                                  *)
ReadTrue ==
  /\ reader.phase = "detail" => reader.lease = 0
  /\ reader.phase \in {"lease", "blocking", "done"} =>
       /\ reader.exists => reader.detail # Null
       /\ reader.outcome # Null => reader.detail.outcome = reader.outcome
       /\ reader.detail # Null /\ reader.detail.store = "ARCHIVED" =>
            /\ archive[reader.job] # Null
            /\ reader.phase # "lease" /\ reader.lease = 0
            /\ reader.phase = "done" => reader.wait = Null

ReaderInv == reader \in Reader /\ ToldTrue /\ ReadTrue

(* What is kept of the answer to the first query.                           *)
kept(d) == IF d = Null THEN Null ELSE [store |-> d.store, outcome |-> d.outcome]

(* What the first query returns: a job that is stored in one of the tables, *)
(* with its outcome if it is archived.                                      *)
LEMMA DetailRead ==
  ASSUME IInv, OneHome, NEW j \in Job
  PROVE  LET d == get_native_job(j) IN
         /\ kept(d) \in Detail \cup {Null}
         /\ kept(d) = Null <=> d = Null
         /\ facts[j] # Null => d # Null
         /\ archive[j] # Null =>
              d # Null /\ kept(d).outcome = archive[j].status /\ d.store = "ARCHIVED"
         /\ d # Null /\ d.store = "ARCHIVED" => archive[j] # Null
         /\ d # Null => kept(d).store = d.store
<1>1. CASE facts[j] = Null
  BY <1>1 DEF get_native_job, OneHome, kept
<1>2. CASE facts[j] # Null /\ jobs[j] # Null
  <2>1. jobs[j].lease_worker_id \in Worker \cup {Null} /\ archive[j] = Null
    BY <1>2, LeaseParts DEF IInv, OneHome
  <2> DEFINE d == [store |-> "ACTIVE", outcome |-> Null, worker |-> jobs[j].lease_worker_id]
             e == [store |-> "ACTIVE", outcome |-> Null]
  <2>2. get_native_job(j) = d /\ d.store = "ACTIVE" /\ d # Null /\ kept(d) = e
    <3>1. d \in Answer
      BY <2>1 DEF Answer
    <3> QED
      BY <1>2, <3>1, AnswerAssumption DEF get_native_job, kept
  <2>3. e \in Detail
    BY DEF Detail
  <2> HIDE DEF d
  <2> QED
    BY <2>1, <2>2, <2>3, AnswerAssumption
<1>3. CASE facts[j] # Null /\ jobs[j] = Null
  <2>1. archive[j] # Null /\ archive[j] \in ArchiveRow
    BY <1>3 DEF OneHome, IInv, TypeOK
  <2> DEFINE d == [store |-> "ARCHIVED", outcome |-> archive[j].status, worker |-> Null]
             e == [store |-> "ARCHIVED", outcome |-> archive[j].status]
  <2>2. get_native_job(j) = d /\ d.store = "ARCHIVED" /\ d # Null /\ kept(d) = e
    <3>1. d \in Answer
      BY <2>1 DEF Answer
    <3> QED
      BY <1>3, <3>1, AnswerAssumption DEF get_native_job, kept
  <2>3. e \in Detail
    BY <2>1 DEF Detail
  <2> HIDE DEF d
  <2> QED
    BY <2>1, <2>2, <2>3, AnswerAssumption
<1> QED
  BY <1>1, <1>2, <1>3

(* Nobody reading: identities and archived rows stay.                       *)
LEMMA ReaderRests ==
  ASSUME History, ReaderInv, reader' = reader
  PROVE  ReaderInv'
  BY DEF History, FactsKept, ReaderInv, ToldTrue, ReadTrue

(* A GetJob that begins.                                                    *)
LEMMA ReadBegins ==
  ASSUME NEW j \in Job, NEW outcome \in Completions \cup {Null, "cancelled"},
         NEW exists \in BOOLEAN, begin_read(j, outcome, exists),
         exists => facts'[j] # Null,
         outcome # Null => archive'[j] # Null /\ archive'[j].status = outcome
  PROVE  ReaderInv'
<1>1. reader' = [phase |-> "detail", job |-> j, outcome |-> outcome, exists |-> exists,
                 detail |-> Null, lease |-> 0, wait |-> Null]
  BY DEF begin_read, IdleReader
<1>2. /\ reader' \in Reader /\ reader'.phase = "detail" /\ reader'.job = j
      /\ reader'.outcome = outcome /\ reader'.exists = exists /\ reader'.lease = 0
  BY <1>1 DEF Reader
<1> QED
  BY <1>2 DEF ReaderInv, ToldTrue, ReadTrue

(* A caller without an answer is like one that has not asked.               *)
LEMMA AnswerGiven ==
  ASSUME History, ReaderInv,
         NEW j \in Job, NEW outcome \in Completions \cup {Null, "cancelled"},
         answer(j, outcome), facts'[j] # Null,
         outcome # Null => archive'[j] # Null /\ archive'[j].status = outcome
  PROVE  ReaderInv'
  BY ReaderRests, ReadBegins DEF answer

(* The three queries.                                                       *)
LEMMA ReadSteps ==
  ASSUME IInv, OneHome, ReaderInv, read_detail \/ read_lease \/ read_blocking
  PROVE  ReaderInv'
<1> DEFINE j == reader.job
           d == get_native_job(j)
           e == kept(d)
<1>1. /\ reader \in Reader /\ UNCHANGED <<facts, archive>> /\ reader.phase # "idle"
      /\ j \in Job
  BY DEF read_detail, read_lease, read_blocking, vars, tables, ReaderInv, ToldTrue
<1>2. /\ e \in Detail \cup {Null} /\ (e = Null <=> d = Null)
      /\ facts[j] # Null => d # Null
      /\ archive[j] # Null => d # Null /\ e.outcome = archive[j].status /\ d.store = "ARCHIVED"
      /\ d # Null /\ d.store = "ARCHIVED" => archive[j] # Null
      /\ d # Null => e.store = d.store
  BY <1>1, DetailRead
<1>3. read_detail => reader.phase = "detail" /\
        (reader' # IdleReader =>
           reader' = [reader EXCEPT !.detail = e,
                        !.phase = IF d = Null THEN "done"
                                  ELSE IF d.store = "ACTIVE" /\ d.worker # Null THEN "lease"
                                  ELSE "blocking"])
  BY DEF read_detail, kept
<1> HIDE DEF d, e
<1>4. CASE read_detail
  <2>1. CASE reader' = IdleReader
    <3>1. IdleReader \in Reader /\ IdleReader.phase = "idle"
      BY DEF IdleReader, Reader
    <3> QED
      BY <2>1, <3>1 DEF ReaderInv, ToldTrue, ReadTrue
  <2>2. CASE reader' # IdleReader
    <3> DEFINE p == IF d = Null THEN "done"
                    ELSE IF d.store = "ACTIVE" /\ d.worker # Null THEN "lease" ELSE "blocking"
    <3>1. reader.phase = "detail" /\ reader' = [reader EXCEPT !.detail = e, !.phase = p]
      BY <1>4, <1>3, <2>2
    <3>2. /\ p \in {"lease", "blocking", "done"} /\ (p = "done" => d = Null)
          /\ p = "lease" => d.store # "ARCHIVED"
      OBVIOUS
    <3> HIDE DEF p
    <3>3. /\ reader' \in Reader /\ reader'.phase = p /\ reader'.detail = e
          /\ reader'.job = j /\ reader'.exists = reader.exists
          /\ reader'.outcome = reader.outcome /\ reader'.lease = reader.lease
      BY <1>1, <1>2, <3>1, <3>2 DEF Reader
    <3>4. /\ reader.lease = 0 /\ reader.exists => facts[j] # Null
          /\ reader.outcome # Null => archive[j] # Null /\ archive[j].status = reader.outcome
      BY <1>1, <3>1 DEF ReaderInv, ToldTrue, ReadTrue
    <3>5. ToldTrue'
      BY <1>1, <3>3, <3>4 DEF ReaderInv, ToldTrue
    <3>6. reader.lease = 0
      BY <3>1 DEF ReaderInv, ReadTrue
    <3>7. ReadTrue'
      BY <1>1, <1>2, <3>2, <3>3, <3>5, <3>6 DEF ReadTrue, ToldTrue
    <3> QED
      BY <3>3, <3>5, <3>7 DEF ReaderInv
  <2> QED
    BY <2>1, <2>2
<1>5. CASE read_lease
  <2> DEFINE n == IF jobs[j] = Null THEN 0 ELSE jobs[j].lease_id
  <2>1. reader.phase = "lease" /\ reader' = [reader EXCEPT !.phase = "blocking", !.lease = n]
    BY <1>5 DEF read_lease
  <2>2. n \in Nat
    BY <1>1, LeaseParts DEF IInv
  <2> HIDE DEF n
  <2>3. /\ reader' \in Reader /\ reader'.phase = "blocking" /\ reader'.detail = reader.detail
        /\ reader'.job = j /\ reader'.exists = reader.exists
        /\ reader'.outcome = reader.outcome
    BY <1>1, <2>1, <2>2 DEF Reader
  <2>4. ToldTrue' /\ ReadTrue'
    BY <1>1, <2>1, <2>3 DEF ReaderInv, ToldTrue, ReadTrue
  <2> QED
    BY <2>3, <2>4 DEF ReaderInv
<1>6. CASE read_blocking
  <2> DEFINE i == BlockingDependencyWait(j)
  <2>1. reader.phase = "blocking" /\ reader' = [reader EXCEPT !.phase = "done", !.wait = i]
    BY <1>6 DEF read_blocking
  <2>2. i \in WaitId \cup {Null}
    <3>1. jobs[j] # Null => jobs[j].dependency_wait_id \in WaitId \cup {Null}
      BY <1>1, JobRowParts DEF IInv, TypeOK
    <3> QED
      BY <3>1 DEF BlockingDependencyWait
  <2>3. archive[j] # Null => i = Null
    BY <1>1 DEF OneHome, BlockingDependencyWait
  <2> HIDE DEF i
  <2>4. /\ reader' \in Reader /\ reader'.phase = "done" /\ reader'.detail = reader.detail
        /\ reader'.job = j /\ reader'.exists = reader.exists /\ reader'.wait = i
        /\ reader'.outcome = reader.outcome /\ reader'.lease = reader.lease
    BY <1>1, <2>1, <2>2 DEF Reader
  <2>5. ToldTrue' /\ ReadTrue'
    BY <1>1, <2>1, <2>3, <2>4 DEF ReaderInv, ToldTrue, ReadTrue
  <2> QED
    BY <2>4, <2>5 DEF ReaderInv
<1> QED
  BY <1>4, <1>5, <1>6

(* The end of a call under a lease: the answer tells the outcome the row    *)
(* was archived with, or that the job was rescheduled and so exists.        *)
LEMMA EndCallAnswer ==
  ASSUME IInv, ControlInv, OneHome, History, ReaderInv,
         NEW c \in {call} \ {Null}, end_call(c)
  PROVE  ReaderInv'
<1>1. c.job \in Job /\ c.outcome \in Completions \cup {Null} /\ jobs[c.job] # Null
  BY DEF IInv, TypeOK, Call, CallInv
<1>2. facts'[c.job] # Null
  BY <1>1 DEF OneHome, History, FactsKept
<1>3. CASE reader' = reader
  BY <1>3, ReaderRests
<1>4. CASE complete_native_locked_job(c) /\ answer(c.job, c.outcome)
  <2>1. Ends(c.job, c.outcome) /\ c.outcome \in Outcomes
    BY <1>1, <1>4 DEF Ends, complete_native_locked_job, Outcomes
  <2>2. archive'[c.job] # Null /\ archive'[c.job].status = c.outcome
    BY <1>1, <2>1, EndsEffect
  <2> QED
    BY <1>1, <1>2, <1>4, <2>2, AnswerGiven
<1>5. CASE reschedule_locked_job(c) /\ answer(c.job, c.outcome)
  <2>1. c.outcome = Null
    BY <1>5 DEF ControlInv, reschedule_locked_job
  <2> QED
    BY <1>1, <1>2, <1>5, <2>1, AnswerGiven
<1> QED
  BY <1>3, <1>4, <1>5 DEF end_call

(* CreateJob: the job exists, submitted now or before.                      *)
LEMMA CreateAnswer ==
  ASSUME IInv, History, ReaderInv, CreateJob
  PROVE  ReaderInv'
<1>1. PICK req \in Submissions :
        \/ /\ resubmit_native_job(req) \/ \E g \in Goal : submit_native_job(req, req.goal, g)
           /\ answer(req.job, Null) \/ reader' = reader
        \/ reader' = reader
  BY DEF CreateJob
<1>2. req.job \in Job /\ req \in SubmitRequest
  BY InputAssumption DEF SubmitRequest
<1>3. CASE reader' = reader
  BY <1>3, ReaderRests
<1>4. ASSUME resubmit_native_job(req) \/ \E g \in Goal : submit_native_job(req, req.goal, g)
      PROVE  facts'[req.job] # Null
  <2>1. CASE resubmit_native_job(req)
    BY <2>1 DEF resubmit_native_job, first_submission, vars, tables
  <2>2. ASSUME NEW g \in Goal, submit_native_job(req, req.goal, g) PROVE facts'[req.job] # Null
    <3> DEFINE fact == [goal |-> g, deps |-> req.deps, parent |-> req.parent,
                        job_type |-> req.job_type, expires_at |-> req.expires_at,
                        hidden |-> FALSE]
    <3>1. facts' = [facts EXCEPT ![req.job] = fact]
      BY <2>2 DEF submit_native_job
    <3>2. fact \in Fact
      BY <1>2 DEF SubmitRequest, Fact
    <3> HIDE DEF fact
    <3> QED
      BY <1>2, <3>1, <3>2, FactAssumption DEF IInv, TypeOK
  <2> QED
    BY <1>4, <2>1, <2>2
<1> QED
  BY <1>1, <1>2, <1>3, <1>4, AnswerGiven

(* CancelJob: the job is archived as cancelled.                             *)
LEMMA CancelAnswer ==
  ASSUME IInv, OneHome, History, ReaderInv, NEW j \in Cancellable, CancelJob(j)
  PROVE  ReaderInv'
<1>1. j \in Job /\ jobs[j] # Null
  BY InputAssumption DEF CancelJob, cancel_native_job, cancel_job
<1>2. Ends(j, "cancelled") /\ "cancelled" \in Outcomes
  BY <1>1 DEF CancelJob, cancel_native_job, Ends, Outcomes
<1>3. archive'[j] # Null /\ archive'[j].status = "cancelled"
  BY <1>1, <1>2, EndsEffect
<1>4. facts'[j] # Null
  BY <1>1 DEF OneHome, History, FactsKept
<1> QED
  BY <1>1, <1>3, <1>4, AnswerGiven DEF CancelJob

(* Every step keeps what the reader was told and has read true.             *)
LEMMA ReaderStep ==
  ASSUME IInv, ControlInv, OneHome, AdapterType, ReaderInv, [RuntimeNext]_avars
  PROVE  ReaderInv'
<1>1. History
  BY SchedulerStep, HistoryStep
<1>2. CASE reader' = reader
  BY <1>1, <1>2, ReaderRests
<1>3. ASSUME NEW j \in Job, GetJob(j) PROVE ReaderInv'
  BY <1>3, ReadBegins DEF GetJob
<1>4. ASSUME NEW w \in Worker, NEW i \in known[w],
             \/ ValidateLease(w, i[1], i[2]) \/ KeepAliveLease(w, i[1], i[2])
             \/ CompleteLease(w, i[1], i[2]) \/ RescheduleLease(w, i[1], i[2])
      PROVE  reader' = reader
  BY <1>4 DEF ValidateLease, KeepAliveLease, CompleteLease, RescheduleLease, refuse, adapter
<1>5. ASSUME NEW w \in Worker,
             \/ get_work(w) \/ got_none(w) \/ \E j \in Job : got_lease(w, j)
             \/ \E req \in Reschedules : ClaimTask(w, req.job, req.route)
      PROVE  reader' = reader
  BY <1>5 DEF get_work, got_none, got_lease, ClaimTask
<1>6. ASSUME Elsewhere \/ UNCHANGED avars \/ UNCHANGED adapter PROVE reader' = reader
  BY <1>6 DEF Elsewhere, avars, adapter
<1> QED
  BY <1>1, <1>2, <1>3, <1>4, <1>5, <1>6, EndCallAnswer, CreateAnswer, CancelAnswer, ReadSteps
  DEF RuntimeNext

(* The answer to a mutation shows the mutation, although it is read later   *)
(* and in three queries: the job exists, an outcome is the one the caller   *)
(* gave, and an archived job has neither a lease nor a wait.                *)
THEOREM AnswersHold == RuntimeSpec => []AnswerHolds
<1>1. RuntimeInit => ReaderInv
  <2>1. IdleReader \in Reader /\ IdleReader.phase = "idle"
    BY DEF IdleReader, Reader
  <2> QED
    BY <2>1 DEF RuntimeInit, ReaderInv, ToldTrue, ReadTrue
<1>2. IInv /\ ControlInv /\ OneHome /\ AdapterType /\ ReaderInv /\ [RuntimeNext]_avars
      => ReaderInv'
  BY ReaderStep
<1>3. ReaderInv => AnswerHolds
  BY DEF ReaderInv, ReadTrue, AnswerHolds
<1> QED
  BY <1>1, <1>2, <1>3, RuntimeImplementsScheduler, AdapterInvariance, Control,
     EveryJobHasOneHome, PTL DEF RuntimeSpec

=============================================================================
