------------------------- MODULE InstallationProofs -------------------------
(***************************************************************************)
(* Proofs about Installation, for any number of runtimes, of goroutines    *)
(* that close them and of other releases: formats agree, an opening that   *)
(* fails leaves nothing open, and Close returns when all is closed.        *)
(***************************************************************************)
EXTENDS Installation, TLAPS

-----------------------------------------------------------------------------
(* The inductive invariant *)

(* Of each runtime: the chapter store is open late and closed by the Once,  *)
(* the connection is the Once's last, and only the end of the Once lets a   *)
(* Close return.                                                            *)
Lifecycle(r) ==
  /\ chapters[r] = "open" => phase[r] \in {"stores", "open"}
  /\ closing[r] # "not" => phase[r] = "open"
  /\ closing[r] \in {"db", "done"} => chapters[r] = "closed"
  /\ closing[r] = "done" /\ r \in Owned => conn[r] = "closed"
  /\ phase[r] \in {"refused", "failed"} /\ r \in Owned => conn[r] = "closed"
  /\ r \notin Owned => conn[r] # "closed"
  /\ \A c \in Closer : closer[r][c] = "returned" => closing[r] = "done"

(* Whoever is through the installer works on a schema of its own format.    *)
Marked ==
  \A r \in Runtime : phase[r] \in {"chapters", "stores", "open"} =>
    schema # Null /\ schema.format = Format

IInv == TypeOK /\ Marked /\ \A r \in Runtime : Lifecycle(r)

-----------------------------------------------------------------------------
(* The first states.                                                        *)
LEMMA InitInv == Init => IInv
<1> SUFFICES ASSUME Init PROVE IInv
  OBVIOUS
<1>1. TypeOK
  BY DEF Init, TypeOK, Handle, Opening
<1>2. Marked
  BY DEF Init, Marked
<1>3. \A r \in Runtime : Lifecycle(r)
  BY DEF Init, Lifecycle
<1> QED
  BY <1>1, <1>2, <1>3 DEF IInv

(* What an opening that gives up does to the runtime's resources.           *)
LEMMA ReleaseInv ==
  ASSUME IInv, NEW r \in Runtime, phase[r] \in Opening, NEW p \in {"refused", "failed"},
         enter(r, p), release(r), UNCHANGED <<database, closing, closer>>
  PROVE  IInv'
<1>1. TypeOK'
  BY DEF IInv, TypeOK, enter, release, database, Handle
<1>2. Marked'
  BY DEF IInv, TypeOK, Marked, enter, database
<1>3. ASSUME NEW s \in Runtime PROVE Lifecycle(s)'
  <2>1. CASE s = r
    BY <2>1 DEF IInv, TypeOK, Lifecycle, enter, release, Opening, Handle
  <2>2. CASE s # r
    BY <2>2 DEF IInv, TypeOK, Lifecycle, enter, release, Opening, Handle
  <2> QED
    BY <2>1, <2>2
<1> QED
  BY <1>1, <1>2, <1>3 DEF IInv

LEMMA RefuseInv ==
  ASSUME IInv, NEW r \in Runtime, phase[r] \in Opening, refuse(r)
  PROVE  IInv'
  BY ReleaseInv DEF refuse

(* A step of an opening that only goes on.                                  *)
LEMMA AdvanceInv ==
  ASSUME IInv, NEW r \in Runtime, phase[r] \in Opening,
         NEW p \in Opening \cup {"open"}, advance(r, p),
         p \in {"chapters", "stores", "open"} => schema # Null /\ schema.format = Format,
         phase[r] = "stores" => p = "open"
  PROVE  IInv'
<1>1. TypeOK'
  BY DEF IInv, TypeOK, advance, enter, database, resources, Opening
<1>2. Marked'
  BY DEF IInv, TypeOK, Marked, advance, enter, database, resources, Opening
<1>3. ASSUME NEW s \in Runtime PROVE Lifecycle(s)'
  BY DEF IInv, TypeOK, Lifecycle, advance, enter, database, resources, Opening
<1> QED
  BY <1>1, <1>2, <1>3 DEF IInv

-----------------------------------------------------------------------------
(* The rest of pgjobdb.sql.                                                 *)
LEMMA ReplaceInv ==
  ASSUME IInv, NEW r \in Runtime, phase[r] \in {"apply", "replace"}, replace_functions(r)
  PROVE  IInv'
<1> DEFINE f == IF schema = Null \/ unmarked THEN Format ELSE schema.format
<1>1. /\ schema' = [format |-> f, code |-> Format] /\ enter(r, "verify")
      /\ UNCHANGED <<legacy, tables, resources, closing, closer>>
  BY DEF replace_functions
<1>2. f \in Nat
  BY DEF IInv, TypeOK, Format
<1>3. schema # Null /\ schema.format = Format => f = Format
  BY DEF unmarked, Format
<1> HIDE DEF f
<1>4. schema' \in [format : Nat, code : Nat] /\ schema' # Null
  BY <1>1, <1>2, InstallationAssumption DEF Format
<1>5. TypeOK'
  BY <1>1, <1>4 DEF IInv, TypeOK, enter, resources, Opening
<1>6. Marked'
  BY <1>1, <1>3, <1>4 DEF IInv, TypeOK, Marked, enter
<1>7. ASSUME NEW s \in Runtime PROVE Lifecycle(s)'
  BY <1>1 DEF IInv, TypeOK, Lifecycle, enter, resources, Opening
<1> QED
  BY <1>5, <1>6, <1>7 DEF IInv

(* Every step of an opening.                                                *)
LEMMA OpenInv ==
  ASSUME IInv, NEW r \in Runtime, Open(r)
  PROVE  IInv'
<1>1. CASE open(r)
  <2>1. TypeOK'
    BY <1>1 DEF IInv, TypeOK, open, enter, database, Opening, Handle
  <2>2. Marked'
    BY <1>1 DEF IInv, TypeOK, Marked, open, enter, database, Opening
  <2>3. ASSUME NEW s \in Runtime PROVE Lifecycle(s)'
    BY <1>1 DEF IInv, TypeOK, Lifecycle, open, enter, database, Opening
  <2> QED
    BY <2>1, <2>2, <2>3 DEF IInv
<1>2. CASE inspect_legacy(r)
  BY <1>2, RefuseInv, AdvanceInv DEF inspect_legacy, Opening
<1>3. CASE inspect_schema(r)
  BY <1>3, AdvanceInv DEF inspect_schema, Opening
<1>4. CASE inspect_marker(r)
  BY <1>4, RefuseInv, AdvanceInv DEF inspect_marker, Opening
<1>5. CASE inspect_tables(r)
  BY <1>5, RefuseInv, AdvanceInv DEF inspect_tables, Opening
<1>6. CASE apply(r)
  <2>1. CASE refuse(r)
    BY <1>6, <2>1, RefuseInv DEF apply, Opening
  <2>2. CASE advance(r, "replace")
    BY <1>6, <2>2, AdvanceInv DEF apply, Opening
  <2>3. CASE replace_functions(r)
    BY <1>6, <2>3, ReplaceInv DEF apply
  <2> QED
    BY <1>6, <2>1, <2>2, <2>3 DEF apply
<1>7. CASE replace(r)
  BY <1>7, ReplaceInv DEF replace
<1>8. CASE verify(r)
  BY <1>8, RefuseInv, AdvanceInv DEF verify, assertInstallation, Opening
<1>9. CASE open_chapters(r)
  <2>1. TypeOK'
    BY <1>9 DEF IInv, TypeOK, open_chapters, enter, Opening, Handle
  <2>2. Marked'
    BY <1>9 DEF IInv, TypeOK, Marked, open_chapters, enter, Opening
  <2>3. ASSUME NEW s \in Runtime PROVE Lifecycle(s)'
    BY <1>9 DEF IInv, TypeOK, Lifecycle, open_chapters, enter, Opening
  <2> QED
    BY <2>1, <2>2, <2>3 DEF IInv
<1>10. CASE open_stores(r)
  <2>1. schema # Null /\ schema.format = Format
    BY <1>10 DEF IInv, Marked, open_stores
  <2> QED
    BY <1>10, <2>1, AdvanceInv DEF open_stores, Opening
<1>11. CASE fail(r)
  BY <1>11, ReleaseInv DEF fail
<1> QED
  BY <1>1, <1>2, <1>3, <1>4, <1>5, <1>6, <1>7, <1>8, <1>9, <1>10, <1>11 DEF Open

(* Every step of a closing.                                                 *)
LEMMA CloseInv ==
  ASSUME IInv, NEW r \in Runtime, Close(r)
  PROVE  IInv'
<1>1. ASSUME NEW c \in Closer, call_close(r, c) PROVE IInv'
  <2>1. TypeOK'
    BY <1>1 DEF IInv, TypeOK, call_close, database, resources
  <2>2. Marked'
    BY <1>1 DEF IInv, Marked, call_close, database, resources
  <2>3. ASSUME NEW s \in Runtime PROVE Lifecycle(s)'
    BY <1>1 DEF IInv, TypeOK, Lifecycle, call_close, database, resources
  <2> QED
    BY <2>1, <2>2, <2>3 DEF IInv
<1>2. CASE close_chapters(r)
  <2>1. TypeOK'
    BY <1>2 DEF IInv, TypeOK, close_chapters, database, Handle
  <2>2. Marked'
    BY <1>2 DEF IInv, Marked, close_chapters, database
  <2>3. ASSUME NEW s \in Runtime PROVE Lifecycle(s)'
    BY <1>2 DEF IInv, TypeOK, Lifecycle, close_chapters, database
  <2> QED
    BY <2>1, <2>2, <2>3 DEF IInv
<1>3. CASE close_db(r)
  <2>1. TypeOK'
    BY <1>3 DEF IInv, TypeOK, close_db, closes_db, database, Handle
  <2>2. Marked'
    BY <1>3 DEF IInv, Marked, close_db, database
  <2>3. ASSUME NEW s \in Runtime PROVE Lifecycle(s)'
    BY <1>3 DEF IInv, TypeOK, Lifecycle, close_db, closes_db, database
  <2> QED
    BY <2>1, <2>2, <2>3 DEF IInv
<1>4. ASSUME NEW c \in Closer, return_close(r, c) PROVE IInv'
  <2>1. TypeOK'
    BY <1>4 DEF IInv, TypeOK, return_close, database, resources
  <2>2. Marked'
    BY <1>4 DEF IInv, Marked, return_close, database, resources
  <2>3. ASSUME NEW s \in Runtime PROVE Lifecycle(s)'
    BY <1>4 DEF IInv, TypeOK, Lifecycle, return_close, once_over, database, resources
  <2> QED
    BY <2>1, <2>2, <2>3 DEF IInv
<1> QED
  BY <1>1, <1>2, <1>3, <1>4 DEF Close

(* What others do to the database; they touch no runtime.                   *)
LEMMA OthersInv ==
  ASSUME IInv, Others
  PROVE  IInv'
<1>1. UNCHANGED others
  BY DEF Others, install_legacy, create_table, install_other
<1>2. \A r \in Runtime : Lifecycle(r)'
  BY <1>1 DEF IInv, Lifecycle, others, resources
<1>3. CASE install_legacy \/ create_table
  <2>1. TypeOK'
    BY <1>1, <1>3 DEF IInv, TypeOK, others, resources, install_legacy, create_table
  <2>2. Marked'
    BY <1>1, <1>3 DEF IInv, Marked, others, install_legacy, create_table
  <2> QED
    BY <1>2, <2>1, <2>2 DEF IInv
<1>4. ASSUME NEW f \in OtherFormat, install_other(f) PROVE IInv'
  <2>1. f \in Nat
    BY InstallationAssumption
  <2>2. TypeOK'
    BY <1>1, <1>4, <2>1 DEF IInv, TypeOK, others, resources, install_other
  <2>3. Marked'
    BY <1>1, <1>4 DEF IInv, Marked, others, install_other, unmarked, Format
  <2> QED
    BY <1>2, <2>2, <2>3 DEF IInv
<1> QED
  BY <1>3, <1>4 DEF Others

(* Every step keeps the invariant.                                          *)
LEMMA StepInv == IInv /\ [Next]_vars => IInv'
<1> SUFFICES ASSUME IInv, [Next]_vars PROVE IInv'
  OBVIOUS
<1>1. CASE Next
  BY <1>1, OpenInv, CloseInv, OthersInv DEF Next
<1>2. CASE UNCHANGED vars
  <2>1. TypeOK'
    BY <1>2 DEF IInv, TypeOK, vars, database, resources
  <2>2. Marked'
    BY <1>2 DEF IInv, Marked, vars, database, resources
  <2>3. \A r \in Runtime : Lifecycle(r)'
    BY <1>2 DEF IInv, Lifecycle, vars, database, resources
  <2> QED
    BY <2>1, <2>2, <2>3 DEF IInv
<1> QED
  BY <1>1, <1>2

-----------------------------------------------------------------------------
(* The invariant holds in every state.                                      *)
LEMMA AlwaysIInv == Spec => []IInv
  BY InitInv, StepInv, PTL DEF Spec

(* The database and the runtimes keep their types, whatever is opened and   *)
(* closed at once.                                                          *)
THEOREM TypeCorrect == Spec => []TypeOK
<1>1. IInv => TypeOK
  BY DEF IInv
<1> QED
  BY <1>1, AlwaysIInv, PTL

(* A step that changes a schema marked with another format is the rest of a *)
(* transaction of pgjobdb.sql that found it without marker.                 *)
LEMMA SchemaStep ==
  ASSUME IInv, [Next]_vars, schema # Null, schema.format \notin {0, Format}, schema' # schema
  PROVE  \E r \in Runtime : phase[r] = "replace" /\ phase'[r] = "verify"
<1>1. ~Others
  BY DEF Others, install_legacy, create_table, install_other, unmarked
<1>2. ASSUME NEW r \in Runtime PROVE ~Close(r)
  BY DEF Close, call_close, close_chapters, close_db, return_close, database
<1>3. PICK r \in Runtime : Open(r)
  BY <1>1, <1>2 DEF Next, vars, database
<1>4. replace(r)
  BY <1>3 DEF Open, open, inspect_legacy, inspect_schema, inspect_marker, inspect_tables, apply,
     ddl_accepts, unmarked, verify, open_chapters, open_stores, fail, refuse, advance, database
<1> QED
  BY <1>4 DEF replace, replace_functions, enter, IInv, TypeOK

(* A runtime that got through the installer runs on its own format, and the *)
(* installer replaces the functions of another format only if the marker    *)
(* came after the check of its transaction.                                 *)
THEOREM FormatsAgree == Spec => FormatAgrees
<1> DEFINE Final ==
      /\ \A r \in Runtime : phase'[r] \in {"chapters", "stores", "open"} =>
           schema' # Null /\ schema'.format = Format
      /\ schema # Null /\ schema.format \notin {0, Format} /\ schema' # schema =>
           \E r \in Runtime : phase[r] = "replace" /\ phase'[r] = "verify"
<1>1. IInv /\ [Next]_vars => Final
  <2> SUFFICES ASSUME IInv, [Next]_vars PROVE Final
    OBVIOUS
  <2>1. Marked'
    BY StepInv DEF IInv
  <2> QED
    BY <2>1, SchemaStep DEF Marked
<1>2. IInv /\ [Next]_vars => [Final]_vars
  BY <1>1
<1> HIDE DEF Final
<1>3. Spec => [][Final]_vars
  BY <1>2, AlwaysIInv, PTL DEF Spec
<1> QED
  BY <1>3 DEF FormatAgrees, Final

(* A failed opening leaves nothing open, and nobody closes the caller's     *)
(* database.                                                                *)
THEOREM NothingIsLeaked == Spec => []NothingLeaks
<1>1. IInv => NothingLeaks
  BY DEF IInv, Lifecycle, NothingLeaks
<1> QED
  BY <1>1, AlwaysIInv, PTL

(* Whoever's Close returns, the runtime is closed.                          *)
THEOREM ClosedWhenCloseReturns == Spec => []CloseMeansClosed
<1>1. IInv => CloseMeansClosed
  BY DEF IInv, Lifecycle, CloseMeansClosed
<1> QED
  BY <1>1, AlwaysIInv, PTL
=============================================================================
