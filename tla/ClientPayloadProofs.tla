------------------------- MODULE ClientPayloadProofs -------------------------
(***************************************************************************)
(* Proofs about ClientPayload, for every set of workers, documents and     *)
(* updates: the types, that no update is lost, and that a patch does what  *)
(* RFC 7396 says.  The merge calls itself through the constant Merge, so   *)
(* that its equation is an assumption and nothing is proved by induction   *)
(* over documents.                                                         *)
(***************************************************************************)
EXTENDS ClientPayload, TLAPS

-----------------------------------------------------------------------------
(* Merging *)

(* A member of a document is a document.                                    *)
LEMMA MemberType ==
  ASSUME NEW d \in Documents \cup {Null}, NEW k
  PROVE  /\ member(d, k) \in Documents \cup {Null}
         /\ is_object(d) => DOMAIN d.members \subseteq Key
         /\ is_object(d) => (k \in DOMAIN d.members <=> member(d, k) # Null)
  BY PayloadAssumption DEF member, is_object

(* The result of a merge with an object is an object, whose members are     *)
(* kept, removed or merged.                                                 *)
LEMMA MergeMembers ==
  ASSUME NEW t \in Documents \cup {Null}, NEW p \in Documents, is_object(p)
  PROVE  /\ is_object(Merge[<<t, p>>])
         /\ \A k \in Key :
              member(Merge[<<t, p>>], k) =
                IF member(p, k) = Null THEN member(t, k)
                ELSE IF member(p, k) = JsonNull THEN Null
                ELSE Merge[<<member(t, k), member(p, k)>>]
<1> DEFINE old == IF is_object(t) THEN t.members ELSE <<>>
           kept == DOMAIN old \ DOMAIN p.members
           put == {k \in DOMAIN p.members : p.members[k] # JsonNull}
           new == [k \in kept \cup put |->
                     IF k \in kept THEN old[k]
                     ELSE Merge[<<IF k \in DOMAIN old THEN old[k] ELSE Null, p.members[k]>>]]
<1>1. Merge[<<t, p>>] = Object(new)
  <2>1. Merge[<<t, p>>] = merge_client_json(Merge, t, p)
    BY PayloadAssumption
  <2>2. merge_client_json(Merge, t, p) = Object(new)
    BY Zenon DEF merge_client_json
  <2> QED
    BY <2>1, <2>2
<1>2. Merge[<<t, p>>] # Null
  BY PayloadAssumption
<1>3. is_object(Merge[<<t, p>>]) /\ Merge[<<t, p>>].members = new
  BY <1>1, <1>2 DEF is_object, Object
<1>4. \A k : member(t, k) = IF k \in DOMAIN old THEN old[k] ELSE Null
  BY DEF member
<1>5. \A k : member(p, k) = IF k \in DOMAIN p.members THEN p.members[k] ELSE Null
  BY DEF member
<1>6. \A k : member(Merge[<<t, p>>], k) = IF k \in kept \cup put THEN new[k] ELSE Null
  BY <1>3 DEF member
<1>7. \A k : k \in DOMAIN p.members => p.members[k] # Null
  BY PayloadAssumption DEF is_object
<1>8. JsonNull # Null
  BY PayloadAssumption
<1> HIDE DEF old
<1> QED
  BY <1>3, <1>4, <1>5, <1>6, <1>7, <1>8

(* A merge does to the members of a document what a patch has to do.        *)
LEMMA MergePatches ==
  ASSUME NEW t \in Documents \cup {Null}, NEW p \in Documents, is_object(p)
  PROVE  /\ patched(t, p, Merge[<<t, p>>])
         /\ \A k \in Key : is_object(member(p, k)) =>
              member(Merge[<<t, p>>], k) = Merge[<<member(t, k), member(p, k)>>]
<1>1. \A k \in Key : member(p, k) \in Documents \cup {Null}
  BY MemberType
<1>2. \A q \in Documents, u \in Documents \cup {Null} : ~is_object(q) => Merge[<<u, q>>] = q
  BY PayloadAssumption DEF merge_client_json
<1>3. \A k \in Key : member(t, k) \in Documents \cup {Null}
  BY MemberType
<1>4. JsonNull # Null /\ ~is_object(JsonNull) /\ ~is_object(Null)
  BY PayloadAssumption DEF JsonNull, is_object
<1> QED
  BY <1>1, <1>2, <1>3, <1>4, MergeMembers DEF patched

-----------------------------------------------------------------------------
(* The protocol *)

(* Payloads fit, and everything read was a state of the job: reads of an    *)
(* earlier revision are behind, and reads of this one are of this payload.  *)
StateInv ==
  /\ state \in [payload : Documents \cup {Null}, revision : 0 .. MaxRevision]
  /\ state.payload # Null => Size[state.payload] <= MaxSize
  /\ \A s \in seen :
       /\ s \in [payload : Documents \cup {Null}, revision : 0 .. MaxRevision]
       /\ s.revision <= state.revision
       /\ s.revision = state.revision => s = state

LeaseInv ==
  /\ nextLease \in Nat /\ archived \in BOOLEAN
  /\ lease \in [id : Nat, valid : BOOLEAN] /\ lease.id < nextLease

(* A call changes what its worker or another one has read.                  *)
CallInv == call # Null => call.base \in seen /\ call.update \in Updates \cup {Null}

(* The last change was made to what its caller had read.                    *)
ChangeInv ==
  change # Null =>
    /\ change.before = change.base /\ change.before \in Documents \cup {Null}
    /\ change.update \in Updates
    /\ change.update.mode = "patch" =>
         /\ change.update.value \in Documents
         /\ change.after = Merge[<<change.before, change.update.value>>]

IInv == StateInv /\ LeaseInv /\ CallInv /\ ChangeInv

(* A new lease; the worker has read the current state.                      *)
LEMMA AcquireStep ==
  ASSUME IInv, NEW w \in Worker, acquire(w)
  PROVE  IInv'
<1>1. StateInv' /\ CallInv' /\ ChangeInv'
  BY DEF IInv, StateInv, CallInv, ChangeInv, acquire
<1>2. LeaseInv'
  BY DEF IInv, LeaseInv, acquire
<1> QED
  BY <1>1, <1>2 DEF IInv

(* A call that begins; its base is a read.                                  *)
LEMMA BeginStep ==
  ASSUME IInv, NEW w \in Worker, NEW kind, NEW u \in Updates \cup {Null}, NEW base \in seen,
         begin_call(w, kind, u, base)
  PROVE  IInv'
<1>1. UNCHANGED <<state, lease, nextLease, archived, seen, change>>
  BY DEF begin_call
<1>2. call'.base = base /\ call'.update = u
  BY DEF begin_call
<1>3. CallInv'
  BY <1>1, <1>2 DEF CallInv
<1> QED
  BY <1>1, <1>3 DEF IInv, StateInv, LeaseInv, ChangeInv

(* An update is made to the state its base was read in.                     *)
LEMMA UpdateStep ==
  ASSUME IInv, call # Null, call.update # Null, update_client_payload(call), seen' = seen
  PROVE  StateInv' /\ ChangeInv'
<1> DEFINE u == call.update
           after == client_update_value(state.payload, u)
<1>1. /\ call.base \in seen /\ u \in Updates /\ state.revision = call.base.revision
      /\ state.revision # MaxRevision /\ update_valid(state.payload, u)
      /\ state' = [payload |-> after, revision |-> state.revision + 1]
      /\ change' = [before |-> state.payload, update |-> u, base |-> call.base.payload,
                    after |-> state'.payload]
  BY DEF IInv, CallInv, update_client_payload, revision_matches
<1>2. call.base = state
  BY <1>1 DEF IInv, StateInv
<1>3. u.value \in Documents \cup {Null} /\ u.mode \in {"reset", "patch"}
  BY <1>1, PayloadAssumption
<1>4. /\ u.mode = "patch" => u.value \in Documents
      /\ after # Null => Size[after] <= MaxSize
  BY <1>1, <1>3 DEF update_valid
<1>5. state.payload \in Documents \cup {Null} /\ state.revision \in 0 .. MaxRevision
  BY DEF IInv, StateInv
<1>6. /\ u.mode = "patch" => after = Merge[<<state.payload, u.value>>]
      /\ after \in Documents \cup {Null}
  BY <1>3, <1>4, <1>5, PayloadAssumption DEF client_update_value
<1> HIDE DEF after, u
<1>7. /\ state' \in [payload : Documents \cup {Null}, revision : 0 .. MaxRevision]
      /\ state'.payload = after /\ state'.revision = state.revision + 1
  BY <1>1, <1>5, <1>6, PayloadAssumption
<1>8. StateInv'
  <2>1. ASSUME NEW s \in seen
        PROVE  /\ s \in [payload : Documents \cup {Null}, revision : 0 .. MaxRevision]
               /\ s.revision <= state'.revision /\ s.revision # state'.revision
    BY <1>5, <1>7 DEF IInv, StateInv
  <2> QED
    BY <1>4, <1>7, <2>1 DEF StateInv
<1>9. /\ change'.before = state.payload /\ change'.update = u
      /\ change'.base = state.payload /\ change'.after = after
  BY <1>1, <1>2, <1>7
<1> QED
  BY <1>1, <1>4, <1>5, <1>6, <1>8, <1>9 DEF ChangeInv

(* The end of a call.                                                       *)
LEMMA EndStep ==
  ASSUME IInv, end_call
  PROVE  IInv'
<1>1. /\ call # Null /\ call' = Null /\ seen' = seen /\ nextLease' = nextLease
      /\ update_client_payload(call)
      /\ lease' = [id |-> 0, valid |-> FALSE] /\ archived' \in BOOLEAN
  BY DEF end_call
<1>2. StateInv' /\ ChangeInv'
  <2>1. CASE call.update = Null
    <3>1. UNCHANGED <<state, change>>
      BY <1>1, <2>1 DEF update_client_payload
    <3> QED
      BY <1>1, <3>1 DEF IInv, StateInv, ChangeInv
  <2> QED
    BY <1>1, <2>1, UpdateStep
<1>3. LeaseInv' /\ CallInv'
  BY <1>1 DEF IInv, LeaseInv, CallInv
<1> QED
  BY <1>2, <1>3 DEF IInv

(* The invariant holds in every reachable state.                            *)
LEMMA Invariance == Spec => []IInv
<1>1. Init => IInv
  <2> SUFFICES ASSUME Init PROVE IInv
    OBVIOUS
  <2>1. PICK v \in Initial : state = [payload |-> v, revision |-> IF v = Null THEN 0 ELSE 1]
    BY DEF Init
  <2>2. /\ v \in Documents \cup {Null}
        /\ v # Null => Size[v] <= MaxSize
        /\ 0 \in 0 .. MaxRevision /\ 1 \in 0 .. MaxRevision
    BY PayloadAssumption
  <2>3. /\ seen = {} /\ call = Null /\ change = Null /\ nextLease = 1 /\ archived \in BOOLEAN
        /\ lease = [id |-> 0, valid |-> FALSE]
    BY DEF Init
  <2>4. /\ state \in [payload : Documents \cup {Null}, revision : 0 .. MaxRevision]
        /\ state.payload = v
    BY <2>1, <2>2
  <2>5. StateInv
    BY <2>2, <2>3, <2>4 DEF StateInv
  <2>6. LeaseInv
    BY <2>3 DEF LeaseInv
  <2>7. CallInv /\ ChangeInv
    BY <2>3 DEF CallInv, ChangeInv
  <2> QED
    BY <2>5, <2>6, <2>7 DEF IInv
<1>2. IInv /\ [Next]_vars => IInv'
  <2> SUFFICES ASSUME IInv, [Next]_vars PROVE IInv'
    OBVIOUS
  <2>1. ASSUME expire PROVE IInv'
    BY <2>1 DEF expire, IInv, StateInv, LeaseInv, CallInv, ChangeInv
  <2>2. ASSUME read PROVE IInv'
    BY <2>2 DEF read, IInv, StateInv, LeaseInv, CallInv, ChangeInv
  <2>3. ASSUME roll_back PROVE IInv'
    BY <2>3 DEF roll_back, IInv, StateInv, LeaseInv, CallInv, ChangeInv
  <2>4. CASE UNCHANGED vars
    BY <2>4 DEF vars, IInv, StateInv, LeaseInv, CallInv, ChangeInv
  <2> QED
    BY <2>1, <2>2, <2>3, <2>4, AcquireStep, BeginStep, EndStep DEF Next
<1> QED
  BY <1>1, <1>2, PTL DEF Spec

(* TypeOK for every set of documents and updates: the stored document keeps *)
(* its limit, and nobody has seen a revision that is not there yet.         *)
THEOREM TypeCorrect == Spec => []TypeOK
<1>1. IInv => TypeOK
  BY DEF IInv, StateInv, LeaseInv, TypeOK
<1> QED
  BY <1>1, Invariance, PTL

(* UpdateReplacesWhatWasRead for every number of workers and leases, and    *)
(* whatever an update computes: a revision stands for one payload, so the   *)
(* base that passes the check is the state itself.                          *)
THEOREM NoLostUpdate == Spec => []UpdateReplacesWhatWasRead
<1>1. IInv => UpdateReplacesWhatWasRead
  BY DEF IInv, ChangeInv, UpdateReplacesWhatWasRead
<1> QED
  BY <1>1, Invariance, PTL

(* PatchExact for every document and patch: _merge_client_json does what    *)
(* RFC 7396 says to the document, and to the objects in it.                 *)
THEOREM PatchesAreExact == Spec => []PatchExact
<1>1. IInv => PatchExact
  <2> SUFFICES ASSUME IInv, change # Null, change.update.mode = "patch"
               PROVE  LET p == change.update.value IN
                      IF ~is_object(p) THEN change.after = p
                      ELSE /\ patched(change.before, p, change.after)
                           /\ \A k \in Key : is_object(member(p, k)) =>
                                patched(member(change.before, k), member(p, k),
                                        member(change.after, k))
    BY DEF PatchExact
  <2> DEFINE t == change.before
             p == change.update.value
  <2>1. t \in Documents \cup {Null} /\ p \in Documents /\ change.after = Merge[<<t, p>>]
    BY DEF IInv, ChangeInv
  <2> HIDE DEF t, p
  <2>2. CASE ~is_object(p)
    <3>1. Merge[<<t, p>>] = p
      BY <2>1, <2>2, PayloadAssumption DEF merge_client_json
    <3> QED
      BY <2>1, <2>2, <3>1 DEF t, p
  <2>3. CASE is_object(p)
    <3>1. /\ patched(t, p, Merge[<<t, p>>])
          /\ \A k \in Key : is_object(member(p, k)) =>
               member(Merge[<<t, p>>], k) = Merge[<<member(t, k), member(p, k)>>]
      BY <2>1, <2>3, MergePatches
    <3>2. ASSUME NEW k \in Key, is_object(member(p, k))
          PROVE  patched(member(t, k), member(p, k), member(Merge[<<t, p>>], k))
      <4>1. member(p, k) \in Documents /\ member(t, k) \in Documents \cup {Null}
        BY <2>1, <3>2, MemberType DEF is_object
      <4> QED
        BY <3>1, <3>2, <4>1, MergePatches
    <3> QED
      BY <2>1, <2>3, <3>1, <3>2 DEF t, p
  <2> QED
    BY <2>2, <2>3 DEF t, p
<1> QED
  BY <1>1, Invariance, PTL

=============================================================================
