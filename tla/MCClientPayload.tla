-------------------------- MODULE MCClientPayload --------------------------
(***************************************************************************)
(* Two workers and documents that are nested once.                         *)
(***************************************************************************)
EXTENDS ClientPayload, TLC

CONSTANTS w1, w2

One == Scalar(1)
Two == Scalar(2)

Objects(values) == UNION {[keys -> values] : keys \in SUBSET Key}
Leaves == {One, Two, JsonNull}
Flat == Leaves \cup {Object(m) : m \in Objects(Leaves)}

(* Only "a" holds objects.                                                  *)
MCDocuments ==
  Leaves \cup {Object(m) : m \in {o \in Objects(Flat) : "b" \in DOMAIN o => o["b"] \in Leaves}}

(* The size and the merge, which call themselves.                           *)
MCSize[d \in MCDocuments] == size(MCSize, d)
MCMerge[x \in (MCDocuments \cup {Null}) \X MCDocuments] == merge_client_json(MCMerge, x[1], x[2])

MCInitial == {Null, Object("a" :> Object("a" :> One)), One}

MCUpdates ==
  [mode : {"patch"},
   value : {Object("a" :> JsonNull), Object("b" :> Two), Object("a" :> Object("b" :> Two)),
            Object("a" :> Object("a" :> JsonNull)), Two}]
  \cup [mode : {"reset"}, value : {Null, Object(("a" :> One) @@ ("b" :> One))}]
=============================================================================
