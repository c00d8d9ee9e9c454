------------------------------ MODULE Migrations ------------------------------
(***************************************************************************)
(* run_migrations of sqlite_manager.rs at every start: the tables that are  *)
(* missing are created, then nine migrations look at the columns they find  *)
(* and change what is old.  Every statement outside of a transaction        *)
(* commits by itself, and the program may end between any two.              *)
(***************************************************************************)
EXTENDS Naturals, Sequences

CONSTANTS Databases,  \* [columns, rows] a start may find
          MaxStarts, MaxRows   \* bounds

(* The tables in the order they are created, with the columns the           *)
(* migrations know about.                                                   *)
Created == <<"sessions", "messages", "runs", "run_steps", "artifacts", "permission_requests",
             "audit_logs", "diagnostic_issues", "workspace_restore_state">>
Table == {Created[i] : i \in DOMAIN Created}
Added == [sessions |-> {"runtime_control", "parent_session_id", "parent_tool_use_id",
                        "root_session_id", "ancestor_ids"},
          messages |-> {"message_id", "metadata"}]
Schema(t) ==
    CASE t = "sessions"                -> Added.sessions
      [] t = "messages"                -> Added.messages \cup {"created_at"}
      [] t = "audit_logs"              -> {"id", "details"}
      [] t = "diagnostic_issues"       -> {"id"}
      [] t = "workspace_restore_state" -> {"snapshot"}
      [] OTHER                         -> {"id"}
(* The columns by which the migrations tell the forms a table has had.       *)
Form(t, c) ==
    /\ t = "messages" => c \cap {"created_at", "timestamp"} # {}
    /\ t = "audit_logs" => c \cap {"id", "log_id"} # {} /\ c \cap {"details", "detail"} # {}
    /\ t = "diagnostic_issues" => c \cap {"id", "issue_id"} # {}
    /\ t \in {"runs", "run_steps", "artifacts", "permission_requests"} => "id" \in c
Row == [n : Nat, time : BOOLEAN, detail : BOOLEAN, session : BOOLEAN]
MigrationsAssumption ==
    \A d \in Databases :
        /\ d.columns = [t \in Table |-> d.columns[t]] /\ d.rows \in [Table -> SUBSET Row]
        /\ \A t \in Table : d.columns[t] = {} \/ Form(t, d.columns[t])
(* The migrations in their order, by the statement they may run.            *)
Plan == <<"runtime_control", "add created_at", "fill created_at", "message_id", "metadata",
          "audit_logs", "diagnostic_issues", "workspace_restore_state",
          "parent_session_id", "parent_tool_use_id", "root_session_id", "ancestor_ids">>

VARIABLES
    columns,  \* [Table -> its columns]; a table without columns is not there
    rows,     \* [Table -> rows]: [n, time, detail, session]: what a row has
    phase,    \* "down", "create", "migrate", "up", "failed"
    at,       \* the next statement
    adding,   \* migrate_messages_timestamp_column has added created_at
    had,      \* history: [Table -> numbers of the rows that were stored]
    starts, stored
vars == <<columns, rows, phase, at, adding, had, starts, stored>>

(* Rows of restore states without a session are not kept.                   *)
Lasting(t, rs) == {r.n : r \in IF t = "workspace_restore_state" THEN {s \in rs : s.session} ELSE rs}
Init ==
    /\ \E d \in Databases : columns = d.columns /\ rows = d.rows
    /\ phase = "down" /\ at = 0 /\ adding = FALSE /\ starts = 0 /\ stored = 0
    /\ had = [t \in Table |-> Lasting(t, rows[t])]

Start ==
    /\ phase \in {"down", "failed"} /\ starts < MaxStarts
    /\ phase' = "create" /\ at' = 1 /\ adding' = FALSE /\ starts' = starts + 1
    /\ UNCHANGED <<columns, rows, had, stored>>
Crash ==
    /\ phase \in {"create", "migrate", "up"}
    /\ phase' = "down"
    /\ UNCHANGED <<columns, rows, at, adding, had, starts, stored>>

(* CREATE TABLE IF NOT EXISTS                                               *)
CreateTable ==
    LET t == Created[at]
    IN /\ phase = "create"
       /\ columns' = IF columns[t] = {} THEN [columns EXCEPT ![t] = Schema(t)] ELSE columns
       /\ IF at < Len(Created) THEN at' = at + 1 /\ UNCHANGED phase ELSE at' = 1 /\ phase' = "migrate"
       /\ UNCHANGED <<rows, adding, had, starts, stored>>

At(step) == phase = "migrate" /\ Plan[at] = step
Onward   == IF at < Len(Plan) THEN at' = at + 1 /\ UNCHANGED phase ELSE phase' = "up" /\ UNCHANGED at

(* A mutant: one look decides about both columns of a migration.            *)
MissingTogether(t, c) ==
    IF c \in {"root_session_id", "ancestor_ids"} THEN columns[t] \cap {"root_session_id", "ancestor_ids"} = {}
                                                 ELSE c \notin columns[t]
(* The migrations that add a column when it is not there.                   *)
Missing(t, c) == c \notin columns[t]
AddColumn(t, c) ==
    /\ At(c) /\ c \in Added[t]
    /\ columns' = IF Missing(t, c) THEN [columns EXCEPT ![t] = @ \cup {c}] ELSE columns
    /\ Onward
    /\ UNCHANGED <<rows, adding, had, starts, stored>>

(* migrate_messages_timestamp_column: the column is added, then filled.     *)
AddCreatedAt ==
    LET old == "created_at" \notin columns.messages /\ "timestamp" \in columns.messages
    IN /\ At("add created_at")
       /\ columns' = IF old THEN [columns EXCEPT !.messages = @ \cup {"created_at"}] ELSE columns
       /\ adding' = old
       /\ Onward
       /\ UNCHANGED <<rows, had, starts, stored>>
FillCreatedAt ==
    /\ At("fill created_at")
    /\ rows' = IF adding THEN [rows EXCEPT !.messages = {[r EXCEPT !.time = TRUE] : r \in @}] ELSE rows
    /\ Onward
    /\ UNCHANGED <<columns, adding, had, starts, stored>>

(* A table that is rebuilt in one transaction: rows are copied, or the      *)
(* copying fails and nothing has changed.                                   *)
Rebuild(t, kept, fails) ==
    IF fails THEN phase' = "failed" /\ UNCHANGED <<columns, rows, at>>
    ELSE /\ columns' = [columns EXCEPT ![t] = Schema(t)]
         /\ rows' = [rows EXCEPT ![t] = kept]
         /\ Onward
(* A mutant: the rename and the rest commit one by one; after a crash the   *)
(* new table is found and the old rows are not looked for.                  *)
RebuildBare(t, kept, fails) ==
    \/ Rebuild(t, kept, fails)
    \/ /\ columns' = [columns EXCEPT ![t] = Schema(t)]
       /\ rows' = [rows EXCEPT ![t] = {}]
       /\ phase' = "down" /\ UNCHANGED at
Rebuilt(t, kept, fails) == Rebuild(t, kept, fails)

(* migrate_audit_logs_schema: details may not be null.                      *)
MigrateAudit ==
    /\ At("audit_logs")
    /\ \/ /\ "id" \notin columns.audit_logs /\ "log_id" \in columns.audit_logs
          /\ Rebuilt("audit_logs", rows.audit_logs, \E r \in rows.audit_logs : ~r.detail)
       \/ /\ ~("id" \notin columns.audit_logs /\ "log_id" \in columns.audit_logs)
          /\ "details" \notin columns.audit_logs /\ "detail" \in columns.audit_logs
          /\ columns' = [columns EXCEPT !.audit_logs = (@ \ {"detail"}) \cup {"details"}]
          /\ Onward /\ UNCHANGED rows
       \/ /\ ~("id" \notin columns.audit_logs /\ "log_id" \in columns.audit_logs)
          /\ ~("details" \notin columns.audit_logs /\ "detail" \in columns.audit_logs)
          /\ Onward /\ UNCHANGED <<columns, rows>>
    /\ UNCHANGED <<adding, had, starts, stored>>
MigrateDiagnostics ==
    /\ At("diagnostic_issues")
    /\ IF "id" \notin columns.diagnostic_issues /\ "issue_id" \in columns.diagnostic_issues
       THEN Rebuilt("diagnostic_issues", rows.diagnostic_issues, FALSE)
       ELSE Onward /\ UNCHANGED <<columns, rows>>
    /\ UNCHANGED <<adding, had, starts, stored>>
MigrateRestoreState ==
    /\ At("workspace_restore_state")
    /\ IF "snapshot" \notin columns.workspace_restore_state
       THEN Rebuilt("workspace_restore_state", {r \in rows.workspace_restore_state : r.session}, FALSE)
       ELSE Onward /\ UNCHANGED <<columns, rows>>
    /\ UNCHANGED <<adding, had, starts, stored>>

(* The running program stores rows.                                         *)
Store(t) ==
    /\ phase = "up" /\ stored < MaxRows
    /\ stored' = stored + 1
    /\ rows' = [rows EXCEPT ![t] = @ \cup {[n |-> 10 + stored, time |-> TRUE, detail |-> TRUE, session |-> TRUE]}]
    /\ had' = [had EXCEPT ![t] = @ \cup {10 + stored}]
    /\ UNCHANGED <<columns, phase, at, adding, starts>>

Next ==
    \/ Start \/ Crash \/ CreateTable
    \/ \E t \in DOMAIN Added : \E c \in Added[t] : AddColumn(t, c)
    \/ AddCreatedAt \/ FillCreatedAt \/ MigrateAudit \/ MigrateDiagnostics \/ MigrateRestoreState
    \/ \E t \in {"messages", "audit_logs", "workspace_restore_state"} : Store(t)
Spec == Init /\ [][Next]_vars

-----------------------------------------------------------------------------
(* "Idempotent: only missing columns are added" (sqlite_manager.rs:205):    *)
(* whatever version a start finds, and wherever earlier starts have ended,  *)
(* a program that runs has every column it uses.                            *)
SchemaCurrent == phase = "up" => \A t \in Table : Schema(t) \subseteq columns[t]

(* No row that was stored by an older version or by this one is lost by a   *)
(* migration, however often it is interrupted or fails, but the restore     *)
(* states that name no session, which the rebuilding of their table leaves  *)
(* behind.  Two old restore states of one session, whose copying conflicts, *)
(* are not among the databases found.                                       *)
RowsSurvive == \A t \in Table : had[t] = Lasting(t, rows[t])

(* A message of an older version has its time when the program runs         *)
(* (backfill of created_at).                                                *)
TimesKept == phase = "up" => \A r \in rows.messages : r.time
=============================================================================
