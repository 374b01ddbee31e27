--------------------------- MODULE RuntimeAdapter ---------------------------
(***************************************************************************)
(* The runtime adapter: the scheduler as the workers and clients of the    *)
(* runtime see it.  Every call of the adapter is one or more autocommitted *)
(* transactions of the scheduler, so that a call can fail after some of    *)
(* them have taken effect, and the answer to a mutation is a GetJob of its *)
(* own, made of up to three queries.                                       *)
(***************************************************************************)
EXTENDS JobReads, FiniteSets

CONSTANTS
  Limits,        \* WorkRequest.Limit values; AcquireJobLease is a request for one
  RuntimeJobs,   \* jobs created through the runtime; the others by SubmitJob itself
  Followed,      \* jobs whose readers are followed
  Duration,      \* the longest duration of a job's run policy, in nanoseconds for
                 \* a job of the runtime and in milliseconds for the others
  Millisecond,   \* time.Millisecond
  MaxInt64       \* math.MaxInt64

ASSUME RuntimeAssumption ==
  /\ Limits \subseteq Nat \ {0}
  /\ RuntimeJobs \subseteq Job /\ Followed \subseteq Job
  /\ Duration \in [Job -> Int]
  /\ Millisecond \in Nat \ {0}
  /\ MaxInt64 \in Nat

VARIABLES
  batch,    \* AcquireWork calls in progress: what they have leased so far
  known,    \* the lease identities each worker has been given
  lost,     \* what each worker has been told of lost leases (ErrExecutionLeaseLost)
  reader    \* the GetJob of one caller

adapter == <<batch, known, lost, reader>>
avars == <<vars, adapter>>

Identity == Job \X Lease

(* An AcquireWork that goes on until it has leased limit jobs.              *)
Batch == [limit : Limits, leases : SUBSET Identity]

(* A lease that was called lost, and whether a renewal of it was under way  *)
(* when it was.                                                             *)
Notice == [lease : Lease, renewing : BOOLEAN]

(* What the first query of a GetJob returns, and what is kept of it.        *)
Answer ==
  [store : {"ACTIVE", "ARCHIVED"}, outcome : {row.status : row \in ArchiveRow} \cup {Null},
   worker : Worker \cup {Null}]
Detail ==
  [store : {"ACTIVE", "ARCHIVED"}, outcome : {row.status : row \in ArchiveRow} \cup {Null}]

ASSUME AnswerAssumption == Null \notin Batch /\ Null \notin Answer /\ Null \notin Detail

Reader ==
  [phase : {"idle", "detail", "lease", "blocking", "done"}, job : Job \cup {Null},
   outcome : Completions \cup {Null, "cancelled"},   \* what the caller was told it did
   exists : BOOLEAN,                                 \* the caller knows the job exists
   detail : Detail \cup {Null}, lease : Nat, wait : WaitId \cup {Null}]

IdleReader ==
  [phase |-> "idle", job |-> Null, outcome |-> Null, exists |-> FALSE, detail |-> Null,
   lease |-> 0, wait |-> Null]

RuntimeInit ==
  /\ Init
  /\ batch = [w \in Worker |-> Null]
  /\ known = [w \in Worker |-> {}]
  /\ lost = [w \in Worker |-> {}]
  /\ reader = IdleReader

-----------------------------------------------------------------------------
(* Run policies *)

(* Null is the error of the conversion.                                     *)
durationToMillis(d) ==
  IF d < 0 \/ d % Millisecond # 0 THEN Null ELSE d \div Millisecond

durationFromMillis(n) ==
  IF n < 0 \/ n > MaxInt64 \div Millisecond THEN Null ELSE n * Millisecond

(* The run policy the job is stored with.  SubmitJob refuses only negative  *)
(* durations.                                                               *)
stored_policy(j) ==
  IF j \in RuntimeJobs THEN durationToMillis(Duration[j])
  ELSE IF Duration[j] < 0 THEN Null ELSE Duration[j]

(* runPolicyFromPgjobdb reads it back.                                      *)
readable(j) == durationFromMillis(stored_policy(j)) # Null

-----------------------------------------------------------------------------
(* GetJob *)

(* One reader is followed at a time.                                        *)
begin_read(j, outcome, exists) ==
  /\ j \in Followed
  /\ reader.phase \in {"idle", "done"}
  /\ reader' = [IdleReader EXCEPT !.phase = "detail", !.job = j, !.outcome = outcome,
                               !.exists = exists]

(* A mutation ends with a GetJob, unless its caller no longer hears it.     *)
answer(j, outcome) ==
  \/ begin_read(j, outcome, TRUE)
  \/ UNCHANGED reader

GetJob(j) ==
  /\ begin_read(j, Null, FALSE)
  /\ UNCHANGED <<vars, batch, known, lost>>

(* The first query; storedJobFromDetail may fail on what it returns.        *)
read_detail ==
  LET d == get_native_job(reader.job) IN
  /\ reader.phase = "detail"
  /\ reader' = IF d # Null /\ ~readable(reader.job) THEN IdleReader
               ELSE [reader EXCEPT
                      !.detail = IF d = Null THEN Null
                                 ELSE [store |-> d.store, outcome |-> d.outcome],
                      !.phase = IF d = Null THEN "done"
                                ELSE IF d.store = "ACTIVE" /\ d.worker # Null THEN "lease"
                                ELSE "blocking"]
  /\ UNCHANGED <<vars, batch, known, lost>>

(* The second one; no row is no error.                                      *)
read_lease ==
  /\ reader.phase = "lease"
  /\ reader' = [reader EXCEPT !.phase = "blocking",
                  !.lease = IF jobs[reader.job] = Null THEN 0 ELSE jobs[reader.job].lease_id]
  /\ UNCHANGED <<vars, batch, known, lost>>

read_blocking ==
  /\ reader.phase = "blocking"
  /\ reader' = [reader EXCEPT !.phase = "done", !.wait = BlockingDependencyWait(reader.job)]
  /\ UNCHANGED <<vars, batch, known, lost>>

-----------------------------------------------------------------------------
(* Taking leases *)

(* The next GetWork of an AcquireWork, its first one included.              *)
get_work(w) ==
  /\ poll_expire(w)
  /\ IF batch[w] # Null THEN UNCHANGED batch
     ELSE \E limit \in Limits :
            batch' = [batch EXCEPT ![w] = [limit |-> limit, leases |-> {}]]
  /\ UNCHANGED <<known, lost, reader>>

deliver(w, leases) ==
  /\ known' = [known EXCEPT ![w] = @ \cup leases]
  /\ batch' = [batch EXCEPT ![w] = Null]

(* GetWork has leased a job.  The batch is complete, or goes on; or it is   *)
(* dropped with all it has leased, because the lease cannot be converted or *)
(* the connection is lost after the commit.                                 *)
got_lease(w, j) ==
  LET leases == batch[w].leases \cup {<<j, nextLease>>}
  IN /\ poll_lock(w, j)
     /\ \/ /\ readable(j)
           /\ IF Cardinality(leases) = batch[w].limit THEN deliver(w, leases)
              ELSE batch' = [batch EXCEPT ![w].leases = leases] /\ UNCHANGED known
        \/ batch' = [batch EXCEPT ![w] = Null] /\ UNCHANGED known
     /\ UNCHANGED <<lost, reader>>

(* GetWork has found nothing: what there is, is delivered, unless the       *)
(* answer is lost.                                                          *)
got_none(w) ==
  /\ poll_none(w)
  /\ \/ deliver(w, batch[w].leases)
     \/ batch' = [batch EXCEPT ![w] = Null] /\ UNCHANGED known
  /\ UNCHANGED <<lost, reader>>

(* A claimed task; an ambiguous commit authorises nobody.                   *)
ClaimTask(w, j, route) ==
  /\ claim_native_task(w, j, route)
  /\ \/ known' = [known EXCEPT ![w] = @ \cup {<<j, nextLease>>}]
     \/ UNCHANGED known
  /\ UNCHANGED <<batch, lost, reader>>

-----------------------------------------------------------------------------
(* Calls under a lease *)

renewing(j, lease) == renewal[j] # Null /\ jobs[j].lease_id = lease

(* translateLeaseError, and what CreateJob makes of ErrJobDeleted: the      *)
(* worker is told that it has lost some of the leases it knows.             *)
tell_lost(w, leases) ==
  lost' = [lost EXCEPT ![w] = @ \cup
             {[lease |-> i[2], renewing |-> renewing(i[1], i[2])] : i \in leases}]

(* The call is refused.                                                     *)
refuse(w, j, lease) ==
  /\ tell_lost(w, {<<j, lease>>})
  /\ UNCHANGED <<vars, batch, known, reader>>

(* ValidateLease; a lease that is valid changes nothing.                    *)
ValidateLease(w, j, lease) == ~validate_native_lease(j, lease, w) /\ refuse(w, j, lease)

(* KeepAliveLease waits for a renewal of the lease that is under way.  The  *)
(* ValidateLease it ends with is another query, and so an action of its     *)
(* own.                                                                     *)
KeepAliveLease(w, j, lease) ==
  \/ renew_native_lease(j, lease, w) /\ UNCHANGED adapter
  \/ ~extend_allowed(j, lease, w) /\ ~renewing(j, lease) /\ refuse(w, j, lease)

CompleteLease(w, j, lease) ==
  \/ /\ \E outcome \in Completions : complete_native_job(j, lease, w, outcome)
     /\ UNCHANGED adapter
  \/ goal_lock_free /\ ~validate_native_lease(j, lease, w) /\ refuse(w, j, lease)

(* WaitUntilIsDeadline is not the caller's choice.                          *)
reschedule_mutation(req) ==
  req.is_deadline <=> (req.wait_for # {} /\ req.available_at # Null)

RescheduleLease(w, j, lease) ==
  \E req \in {r \in Reschedules : r.job = j /\ reschedule_mutation(r)} :
    \/ reschedule_native_job(req, lease, w) /\ UNCHANGED adapter
    \/ /\ goal_lock_free /\ reschedule_valid(req)
       /\ ~validate_native_lease(j, lease, w) /\ refuse(w, j, lease)

(* The open call ends: done, refused after all on the locked row, or failed.*)
end_call(c) ==
  \/ /\ complete_native_locked_job(c) \/ reschedule_locked_job(c)
     /\ IF c.lease = 0 THEN UNCHANGED reader ELSE answer(c.job, c.outcome)
     /\ UNCHANGED <<batch, known, lost>>
  \/ /\ roll_back_call
     /\ \/ UNCHANGED lost
        \/ /\ c.req # Null /\ ~still_authorised(c) /\ renewal[c.job] = Null
           /\ tell_lost(c.worker, {<<c.job, c.lease>>})
     /\ UNCHANGED <<batch, known, reader>>

-----------------------------------------------------------------------------
(* Clients *)

(* A submission that changes nothing: the job is there already, with the    *)
(* same facts.                                                              *)
resubmit_native_job(req) ==
  /\ goal_lock_free
  /\ ~first_submission(req.job)
  /\ req.wait_for = {} \/ req.deps = <<>>
  /\ as_prepared(req, req.goal)
  /\ ~parent_deleted(req)
  /\ LET f == facts[req.job]
     IN /\ f.job_type = req.job_type /\ f.expires_at = req.expires_at
        /\ f.deps = req.deps /\ f.parent = req.parent
        /\ req.goal # Null => f.goal = req.goal
  /\ UNCHANGED vars

(* A submission is refused because its parent was deleted.                  *)
refuse_child(req) ==
  /\ goal_lock_free
  /\ req.wait_for = {} \/ req.deps = <<>>
  /\ as_prepared(req, req.goal)
  /\ IF first_submission(req.job) THEN \E g \in Goal : goal_granted(req, req.goal, g)
     ELSE req.goal # Null => facts[req.job].goal = req.goal
  /\ parent_deleted(req)

(* Through the adapter the refusal is ErrExecutionLeaseLost, for whichever  *)
(* worker runs the parent.                                                  *)
CreateJob ==
  \E req \in Submissions :
    \/ /\ stored_policy(req.job) # Null
       /\ \/ resubmit_native_job(req)
          \/ \E g \in Goal : submit_native_job(req, req.goal, g)
       /\ IF req.job \in RuntimeJobs THEN answer(req.job, Null) ELSE UNCHANGED reader
       /\ UNCHANGED <<batch, known, lost>>
    \/ /\ durationToMillis(Duration[req.job]) # Null
       /\ refuse_child(req)
       /\ \E w \in Worker : tell_lost(w, {i \in known[w] : i[1] = req.parent})
       /\ UNCHANGED <<vars, batch, known, reader>>

CancelJob(j) ==
  /\ cancel_native_job(j)
  /\ answer(j, "cancelled")
  /\ UNCHANGED <<batch, known, lost>>

(* Whoever calls the scheduler without the adapter, or through it and       *)
(* without an answer of interest here.  The goal calls of goals.go are left *)
(* out: they only pass their arguments on.                                  *)
Elsewhere ==
  /\ \/ Tick \/ ClearCrashConcern \/ Delete
     \/ \E w \in Worker : poll_snapshot(w)
     \/ \E j \in Job, outcome \in Completions : complete_native_unheld_job(j, outcome)
  /\ UNCHANGED adapter

-----------------------------------------------------------------------------
RuntimeNext ==
  \/ /\ deleting = {}
     /\ \/ CreateJob \/ Elsewhere
        \/ \E j \in Cancellable : CancelJob(j)
        \/ \E c \in {call} \ {Null} : end_call(c)
        \/ \E w \in Worker : \/ get_work(w) \/ got_none(w)
                             \/ \E j \in Job : got_lease(w, j)
                             \/ \E req \in Reschedules : ClaimTask(w, req.job, req.route)
        \/ \E w \in Worker : \E i \in known[w] :
             \/ ValidateLease(w, i[1], i[2]) \/ KeepAliveLease(w, i[1], i[2])
             \/ CompleteLease(w, i[1], i[2]) \/ RescheduleLease(w, i[1], i[2])
        \/ \E j \in Job : GetJob(j)
        \/ read_detail \/ read_lease \/ read_blocking
  \/ (\E j \in deleting : delete_one_job(j)) /\ UNCHANGED adapter
  \/ (\E j \in Job : commit_renewal(j)) /\ UNCHANGED adapter

RuntimeSpec == RuntimeInit /\ [][RuntimeNext]_avars

-----------------------------------------------------------------------------
(* Properties *)

(* A worker that is told ErrExecutionLeaseLost while none of its own        *)
(* heartbeats is under way may stop at once: the lease is not valid and     *)
(* never will be, whichever call told it and whatever late heartbeats still *)
(* arrive.  ValidateLease and the first check of a call do not wait for the *)
(* row lock, and may call a lease lost that an uncommitted heartbeat is     *)
(* about to prolong; a heartbeat and the second check of a rescheduling do. *)
LostIsLost ==
  \A w \in Worker : \A notice \in lost[w] : LeaseHeld(notice.lease) => notice.renewing

(* The job that CompleteLease, RescheduleLease, CancelJob and CreateJob     *)
(* answer with is the job after the mutation: it exists, and if it ended it *)
(* shows the outcome the caller gave it, although it is read later, in      *)
(* three queries; an archived job has neither a lease nor a wait.           *)
AnswerHolds ==
  reader.phase = "done" =>
    /\ reader.exists => reader.detail # Null
    /\ reader.outcome # Null => reader.detail.outcome = reader.outcome
    /\ reader.detail # Null /\ reader.detail.store = "ARCHIVED" =>
         reader.lease = 0 /\ reader.wait = Null

(* The lease is neither known to a worker nor in an open batch.             *)
undelivered(lease) ==
  \A w \in Worker, j \in Job :
    /\ <<j, lease>> \notin known[w]
    /\ batch[w] # Null => <<j, lease>> \notin batch[w].leases

(* A lease whose AcquireWork, AcquireJobLease or ClaimTask failed after the *)
(* commit does not hold up its job for longer than it was given for: nobody *)
(* learns of it later, and no call under another lease prolongs it.         *)
DroppedLeaseRunsOut ==
  [][\A lease \in Lease :
       lease < nextLease /\ undelivered(lease) =>
         /\ undelivered(lease)'
         /\ \A j \in Job :
              jobs[j] # Null /\ jobs[j].lease_id = lease /\ jobs'[j] # Null =>
                jobs'[j].lease_id # lease
                  \/ jobs'[j].lease_expires_at = jobs[j].lease_expires_at]_avars

=============================================================================
