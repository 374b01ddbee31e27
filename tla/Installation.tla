---------------------------- MODULE Installation ----------------------------
(***************************************************************************)
(* Opening and closing runtimes on one database: the installer's checks,   *)
(* the DDL of pgjobdb.sql, and the resources a runtime holds.              *)
(*                                                                         *)
(* The checks are queries of their own, before the one transaction of      *)
(* pgjobdb.sql, and nothing is locked between them: other runtimes and     *)
(* other programs change the database in between.  Two DDL transactions    *)
(* that collide in the catalogue make one of them fail, which any query    *)
(* may do here.                                                            *)
(***************************************************************************)
EXTENDS Naturals

CONSTANTS
  Runtime,      \* runtimes that are opened
  Owned,        \* those opened by OpenDSN; the others get their caller's database
  Closer,       \* goroutines that call Close
  OtherFormat,  \* formats other releases install; 0 is a schema without marker
  Null

Format == 7

ASSUME InstallationAssumption ==
  /\ Owned \subseteq Runtime
  /\ OtherFormat \subseteq Nat \ {Format}
  /\ Null \notin [format : Nat, code : Nat]

VARIABLES
  legacy,    \* the schema pgwf exists
  tables,    \* whose tables there are outside pgjobdb
  schema,    \* the schema pgjobdb: its marker and its functions' format
  phase,     \* how far each runtime is
  conn,      \* its connection pool
  chapters,  \* its chapter store
  closing,   \* its sync.Once
  closer     \* the calls of its Close

database == <<legacy, tables, schema>>
resources == <<conn, chapters>>
vars == <<database, phase, resources, closing, closer>>

Opening == {"legacy", "schema", "marker", "tables", "apply", "replace", "verify",
            "chapters", "stores"}
Handle == {"none", "open", "closed"}

TypeOK ==
  /\ legacy \in BOOLEAN
  /\ tables \subseteq {"foreign", "chapters"}
  /\ schema \in [format : Nat, code : Nat] \cup {Null}
  /\ phase \in [Runtime -> Opening \cup {"new", "open", "refused", "failed"}]
  /\ conn \in [Runtime -> Handle]
  /\ chapters \in [Runtime -> Handle]
  /\ closing \in [Runtime -> {"not", "chapters", "db", "done"}]
  /\ closer \in [Runtime -> [Closer -> {"none", "called", "returned"}]]

Init ==
  /\ legacy = FALSE
  /\ tables = {}
  /\ schema = Null
  /\ phase = [r \in Runtime |-> "new"]
  /\ conn = [r \in Runtime |-> "none"]
  /\ chapters = [r \in Runtime |-> "none"]
  /\ closing = [r \in Runtime |-> "not"]
  /\ closer = [r \in Runtime |-> [c \in Closer |-> "none"]]

-----------------------------------------------------------------------------
(* Opening *)

enter(r, p) == phase' = [phase EXCEPT ![r] = p]

advance(r, p) == enter(r, p) /\ UNCHANGED <<database, resources, closing, closer>>

(* Mutant: an error after the chapter store is open leaves it open.         *)
release_connection_only(r) ==
  /\ conn' = IF r \in Owned THEN [conn EXCEPT ![r] = "closed"] ELSE conn
  /\ chapters' = chapters

(* What NewSQLDB and OpenDSN close before they return an error.             *)
release(r) ==
  /\ conn' = IF r \in Owned THEN [conn EXCEPT ![r] = "closed"] ELSE conn
  /\ chapters' = IF chapters[r] = "open" THEN [chapters EXCEPT ![r] = "closed"] ELSE chapters

(* The installer refuses the database.                                      *)
refuse(r) == enter(r, "refused") /\ release(r) /\ UNCHANGED <<database, closing, closer>>

(* OpenDSN, or NewSQLDB with a database of the caller's.                    *)
open(r) ==
  /\ phase[r] = "new"
  /\ enter(r, "legacy")
  /\ conn' = [conn EXCEPT ![r] = "open"]
  /\ UNCHANGED <<database, chapters, closing, closer>>

(* validateDatabase, its queries in their order.                            *)
inspect_legacy(r) ==
  /\ phase[r] = "legacy"
  /\ IF legacy THEN refuse(r) ELSE advance(r, "schema")

inspect_schema(r) ==
  /\ phase[r] = "schema"
  /\ advance(r, IF schema # Null THEN "marker" ELSE "tables")

(* assertInstallation.                                                      *)
assertInstallation == schema # Null /\ schema.format = Format

inspect_marker(r) ==
  /\ phase[r] = "marker"
  /\ IF assertInstallation THEN advance(r, "apply") ELSE refuse(r)

(* Any table there is, those of pgjobdb included.                           *)
existing_table == tables # {} \/ (schema # Null /\ schema.format # 0)

inspect_tables(r) ==
  /\ phase[r] = "tables"
  /\ IF existing_table THEN refuse(r) ELSE advance(r, "apply")

(* Mutant: no check in the transaction.                                     *)
ddl_accepts_any == TRUE

(* The check at the head of pgjobdb.sql.                                    *)
ddl_accepts == schema # Null /\ schema.format # 0 => schema.format = Format

unmarked == schema # Null /\ schema.format = 0

(* The rest of pgjobdb.sql: a marker that is there stays, every function is *)
(* replaced.                                                                *)
replace_functions(r) ==
  /\ schema' = [format |-> IF schema = Null \/ unmarked THEN Format ELSE schema.format,
                code |-> Format]
  /\ enter(r, "verify")
  /\ UNCHANGED <<legacy, tables, resources, closing, closer>>

(* The transaction of pgjobdb.sql.  A schema it creates is its own until it *)
(* commits, and a marker it has found stays; but a schema without marker    *)
(* can be marked by another release before the statements that follow the   *)
(* check, which would not notice.                                           *)
apply(r) ==
  /\ phase[r] = "apply"
  /\ IF ~ddl_accepts THEN refuse(r)
     ELSE IF unmarked THEN advance(r, "replace")
     ELSE replace_functions(r)

replace(r) == phase[r] = "replace" /\ replace_functions(r)

(* Verify.                                                                  *)
verify(r) ==
  /\ phase[r] = "verify"
  /\ IF assertInstallation THEN advance(r, "chapters") ELSE refuse(r)

open_chapters(r) ==
  /\ phase[r] = "chapters"
  /\ enter(r, "stores")
  /\ tables' = tables \cup {"chapters"}
  /\ chapters' = [chapters EXCEPT ![r] = "open"]
  /\ UNCHANGED <<legacy, schema, conn, closing, closer>>

(* Schemas, configurations, the core and the registry.                      *)
open_stores(r) == phase[r] = "stores" /\ advance(r, "open")

(* Any query or constructor on the way may fail.                            *)
fail(r) ==
  /\ phase[r] \in Opening
  /\ enter(r, "failed")
  /\ release(r)
  /\ UNCHANGED <<database, closing, closer>>

-----------------------------------------------------------------------------
(* Closing *)

(* Close enters the Once; the first caller runs its function.               *)
call_close(r, c) ==
  /\ phase[r] = "open"
  /\ closer[r][c] = "none"
  /\ closer' = [closer EXCEPT ![r][c] = "called"]
  /\ closing' = IF closing[r] = "not" THEN [closing EXCEPT ![r] = "chapters"] ELSE closing
  /\ UNCHANGED <<database, phase, resources>>

close_chapters(r) ==
  /\ closing[r] = "chapters"
  /\ chapters' = [chapters EXCEPT ![r] = "closed"]
  /\ closing' = [closing EXCEPT ![r] = "db"]
  /\ UNCHANGED <<database, phase, conn, closer>>

closes_db(r) == r \in Owned

close_db(r) ==
  /\ closing[r] = "db"
  /\ conn' = IF closes_db(r) THEN [conn EXCEPT ![r] = "closed"] ELSE conn
  /\ closing' = [closing EXCEPT ![r] = "done"]
  /\ UNCHANGED <<database, phase, chapters, closer>>

(* Mutant: a flag instead of a Once.                                        *)
once_over_entered(r) == closing[r] # "not"

(* Once.Do returns to every caller when its function has.                   *)
once_over(r) == closing[r] = "done"

return_close(r, c) ==
  /\ closer[r][c] = "called"
  /\ once_over(r)
  /\ closer' = [closer EXCEPT ![r][c] = "returned"]
  /\ UNCHANGED <<database, phase, resources, closing>>

-----------------------------------------------------------------------------
(* Others *)

others == <<phase, resources, closing, closer>>

install_legacy == ~legacy /\ legacy' = TRUE /\ UNCHANGED <<tables, schema, others>>

create_table ==
  /\ "foreign" \notin tables
  /\ tables' = tables \cup {"foreign"}
  /\ UNCHANGED <<legacy, schema, others>>

(* Another release installs itself at one instant.                          *)
install_other(f) ==
  /\ schema = Null \/ (unmarked /\ f # 0)
  /\ schema' = [format |-> f, code |-> f]
  /\ UNCHANGED <<legacy, tables, others>>

-----------------------------------------------------------------------------
Open(r) ==
  \/ open(r) \/ inspect_legacy(r) \/ inspect_schema(r) \/ inspect_marker(r)
  \/ inspect_tables(r) \/ apply(r) \/ replace(r) \/ verify(r) \/ open_chapters(r)
  \/ open_stores(r) \/ fail(r)

Close(r) ==
  \/ close_chapters(r) \/ close_db(r)
  \/ \E c \in Closer : call_close(r, c) \/ return_close(r, c)

Others ==
  \/ install_legacy \/ create_table
  \/ \E f \in OtherFormat : install_other(f)

Next == Others \/ \E r \in Runtime : Open(r) \/ Close(r)

Spec == Init /\ [][Next]_vars

-----------------------------------------------------------------------------
(* Properties *)

(* A runtime that got through the installer runs on its own format,         *)
(* whichever release installs the schema meanwhile; and the installer never *)
(* replaces the functions of a schema that is marked with another format,   *)
(* unless the mark is newer than the check of its own transaction.          *)
FormatAgrees ==
  [][/\ \A r \in Runtime : phase'[r] \in {"chapters", "stores", "open"} =>
          schema' # Null /\ schema'.format = Format
     /\ schema # Null /\ schema.format \notin {0, Format} /\ schema' # schema =>
          \E r \in Runtime : phase[r] = "replace" /\ phase'[r] = "verify"]_vars

(* A runtime that could not be opened holds nothing, at whichever step it   *)
(* failed; and the caller's database is left open always.                   *)
NothingLeaks ==
  \A r \in Runtime :
    /\ phase[r] \in {"refused", "failed"} =>
         chapters[r] # "open" /\ (r \in Owned => conn[r] # "open")
    /\ r \notin Owned => conn[r] # "closed"

(* When a Close returns, to whichever of several callers, the chapter store *)
(* and an owned connection are closed.                                      *)
CloseMeansClosed ==
  \A r \in Runtime : \A c \in Closer :
    closer[r][c] = "returned" => chapters[r] # "open" /\ (r \in Owned => conn[r] # "open")

=============================================================================
