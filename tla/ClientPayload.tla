---------------------------- MODULE ClientPayload ---------------------------
(***************************************************************************)
(* The client payload of one job: a JSON document with a revision, given   *)
(* with the submission and changed by the completion or rescheduling of a  *)
(* lease holder, who names the revision the change is based on.            *)
(*                                                                         *)
(* Of the lease only what guards an update is kept; the Scheduler module   *)
(* has the rest.                                                           *)
(***************************************************************************)
EXTENDS Naturals, Sequences, FiniteSetsExt

CONSTANTS
  Worker,       \* workers
  Key,          \* object names
  Documents,    \* JSON documents
  Initial,      \* payloads of submissions; Null is an absent one
  Updates,      \* changes that callers send
  MaxSize,      \* the size limit of a document, in members
  MaxRevision,  \* the largest BIGINT
  MaxLeases,    \* bound: lease ids that can be issued
  Null,
  Size, Merge   \* functions: the fixpoints of size and of merge_client_json, whose
                \* first parameter is what they call on members

-----------------------------------------------------------------------------
(* Documents: objects have members, everything else is a scalar or null.    *)

Scalar(v) == [kind |-> "scalar", value |-> v]
JsonNull == [kind |-> "null"]
Object(members) == [kind |-> "object", members |-> members]

is_object(d) == d # Null /\ d.kind = "object"

size(self, d) ==
  IF ~is_object(d) THEN 1
  ELSE MapThenSumSet(LAMBDA k : 1 + self[d.members[k]], DOMAIN d.members)

(* Mutant: a patch replaces the members it names, nested or not.            *)
merge_client_json_shallow(self, target, patch) ==
  IF ~is_object(patch) THEN patch
  ELSE LET old == IF is_object(target) THEN target.members ELSE <<>>
           kept == DOMAIN old \ DOMAIN patch.members
           put == {k \in DOMAIN patch.members : patch.members[k] # JsonNull}
       IN Object([k \in kept \cup put |-> IF k \in kept THEN old[k] ELSE patch.members[k]])

(* _merge_client_json.                                                      *)
merge_client_json(self, target, patch) ==
  IF ~is_object(patch) THEN patch
  ELSE LET old == IF is_object(target) THEN target.members ELSE <<>>
           kept == DOMAIN old \ DOMAIN patch.members
           put == {k \in DOMAIN patch.members : patch.members[k] # JsonNull}
       IN Object([k \in kept \cup put |->
            IF k \in kept THEN old[k]
            ELSE self[<<IF k \in DOMAIN old THEN old[k] ELSE Null, patch.members[k]>>]])

(* _client_update_value; a document that is too large is an error.          *)
client_update_value(current, u) ==
  IF u.mode = "reset" THEN u.value ELSE Merge[<<current, u.value>>]

(* Mutant: only what is sent is measured.                                   *)
update_valid_sent(current, u) ==
  /\ u.mode = "patch" => u.value # Null
  /\ u.value # Null => Size[u.value] <= MaxSize

update_valid(current, u) ==
  /\ u.mode = "patch" => u.value # Null
  /\ u.value # Null => Size[u.value] <= MaxSize
  /\ LET result == client_update_value(current, u)
     IN result # Null => Size[result] <= MaxSize

(* Documents are closed under members and merges, Merge is a fixpoint of    *)
(* merge_client_json, and submissions keep the size limit.                  *)
ASSUME PayloadAssumption ==
  /\ Null \notin Documents /\ JsonNull \in Documents
  /\ \A d \in Documents : d.kind = "object" =>
       DOMAIN d.members \subseteq Key /\ \A k \in DOMAIN d.members : d.members[k] \in Documents
  /\ \A t \in Documents \cup {Null}, p \in Documents :
       Merge[<<t, p>>] \in Documents /\ Merge[<<t, p>>] = merge_client_json(Merge, t, p)
  /\ Initial \subseteq {d \in Documents : Size[d] <= MaxSize} \cup {Null}
  /\ Updates \subseteq [mode : {"reset", "patch"}, value : Documents \cup {Null}]
  /\ MaxRevision \in Nat \ {0}

-----------------------------------------------------------------------------
VARIABLES
  state,     \* job_client_state of the job
  lease,     \* the lease on the job's row
  nextLease, \* source of lease ids
  archived,  \* the job is over
  held,      \* the lease each worker was given
  seen,      \* the payloads with their revisions that callers have read
  call,      \* the completion or rescheduling that has passed its checks
  change     \* the last update that was made

vars == <<state, lease, nextLease, archived, held, seen, call, change>>

Init ==
  /\ \E v \in Initial : state = [payload |-> v, revision |-> IF v = Null THEN 0 ELSE 1]
  /\ lease = [id |-> 0, valid |-> FALSE]
  /\ nextLease = 1
  /\ archived = FALSE
  /\ held = [w \in Worker |-> 0]
  /\ seen = {}
  /\ call = Null
  /\ change = Null

holds(w) == ~archived /\ lease.valid /\ held[w] = lease.id

(* The lease that a poll gives to w; its answer carries the payload.        *)
acquire(w) ==
  /\ ~archived /\ ~lease.valid /\ nextLease <= MaxLeases
  /\ lease' = [id |-> nextLease, valid |-> TRUE]
  /\ nextLease' = nextLease + 1
  /\ held' = [held EXCEPT ![w] = nextLease]
  /\ seen' = seen \cup {state}
  /\ UNCHANGED <<state, archived, call, change>>

expire ==
  /\ lease.valid
  /\ lease' = [lease EXCEPT !.valid = FALSE]
  /\ UNCHANGED <<state, nextLease, archived, held, seen, call, change>>

(* GetJob, also of a job that is over.                                      *)
read ==
  /\ seen' = seen \cup {state}
  /\ UNCHANGED <<state, lease, nextLease, archived, held, call, change>>

(* CompleteJob and RescheduleJob: clientUpdateArgs, and the checks of the   *)
(* lease.  The base of the change is any earlier read, one kept from an     *)
(* earlier lease included.                                                  *)
begin_call(w, kind, u, base) ==
  /\ call = Null
  /\ holds(w)
  /\ call' = [worker |-> w, kind |-> kind, update |-> u, base |-> base]
  /\ UNCHANGED <<state, lease, nextLease, archived, held, seen, change>>

(* Mutant: the last writer wins.                                            *)
revision_matches_any(base) == state.revision # MaxRevision

(* The revision check of _update_client_payload.                            *)
revision_matches(base) == state.revision = base.revision /\ state.revision # MaxRevision

(* _update_client_payload; an update of Null preserves the payload.         *)
update_client_payload(c) ==
  IF c.update = Null THEN UNCHANGED <<state, change>>
  ELSE /\ revision_matches(c.base)
       /\ update_valid(state.payload, c.update)
       /\ state' = [payload |-> client_update_value(state.payload, c.update),
                    revision |-> state.revision + 1]
       /\ change' = [before |-> state.payload, update |-> c.update, base |-> c.base.payload,
                     after |-> state'.payload]

(* The payload, and then the job.  A rescheduling looks at the locked row   *)
(* before, for the worker of the lease and its time; a completion does not. *)
end_call ==
  /\ call # Null
  /\ call.kind = "reschedule" => lease.valid /\ held[call.worker] = lease.id
  /\ update_client_payload(call)
  /\ lease' = [id |-> 0, valid |-> FALSE]
  /\ archived' = (call.kind = "complete")
  /\ call' = Null
  /\ UNCHANGED <<nextLease, held, seen>>

(* An exception: conflict, invalid update, lost lease.                      *)
roll_back ==
  /\ call # Null
  /\ call' = Null
  /\ UNCHANGED <<state, lease, nextLease, archived, held, seen, change>>

Next ==
  \/ expire \/ read \/ end_call \/ roll_back
  \/ \E w \in Worker :
       \/ acquire(w)
       \/ \E kind \in {"complete", "reschedule"}, u \in Updates \cup {Null}, base \in seen :
            begin_call(w, kind, u, base)

Spec == Init /\ [][Next]_vars

-----------------------------------------------------------------------------
(* Properties *)

(* The stored document keeps the limit of its CHECK, and nobody has seen a  *)
(* revision that is not there yet.                                          *)
TypeOK ==
  /\ state.revision \in 0 .. MaxRevision
  /\ state.payload # Null => Size[state.payload] <= MaxSize
  /\ lease.id < nextLease /\ archived \in BOOLEAN
  /\ \A s \in seen : s.revision <= state.revision

(* No lost update: what an update replaces is what its caller had read,     *)
(* although leases expire, jobs are leased again and calls come late or     *)
(* with a base of an earlier lease.                                         *)
UpdateReplacesWhatWasRead == change # Null => change.before = change.base

member(d, k) == IF is_object(d) /\ k \in DOMAIN d.members THEN d.members[k] ELSE Null

(* What RFC 7396 says of the members of an object p that patches before: it *)
(* sets what it has a value for, removes what it has a null for, and leaves *)
(* alone what it does not mention.                                          *)
patched(before, p, after) ==
  /\ is_object(after)
  /\ \A k \in Key :
       LET m == member(p, k) IN
       /\ m = Null => member(after, k) = member(before, k)
       /\ m = JsonNull => member(after, k) = Null
       /\ m # Null /\ m # JsonNull /\ ~is_object(m) => member(after, k) = m

(* A patch does what RFC 7396 says, to the document and to every member of  *)
(* it that the patch has an object for.                                     *)
PatchExact ==
  change # Null /\ change.update.mode = "patch" =>
    LET p == change.update.value IN
    IF ~is_object(p) THEN change.after = p
    ELSE /\ patched(change.before, p, change.after)
         /\ \A k \in Key : is_object(member(p, k)) =>
              patched(member(change.before, k), member(p, k), member(change.after, k))

=============================================================================
