----------------------------- MODULE MCMigrations -----------------------------
(* An instance of Migrations: every table of an old version, of this one,   *)
(* or not there, and the columns an interrupted migration leaves.           *)
EXTENDS Migrations
Old(t) ==
    CASE t = "sessions" -> {{"x"}, {"x", "runtime_control", "parent_session_id"},
                            Schema(t) \ {"ancestor_ids"}}
      [] t = "messages" -> {{"timestamp"}, {"timestamp", "created_at", "message_id"}}
      [] t = "audit_logs" -> {{"log_id", "detail"}, {"log_id", "details"}, {"id", "detail"}}
      [] t = "diagnostic_issues" -> {{"issue_id"}}
      [] t = "workspace_restore_state" -> {{"agent_id"}}
      [] OTHER -> {}
Versions(t) == {{}, Schema(t)} \cup Old(t)
Stored(n, time, detail, session) == [n |-> n, time |-> time, detail |-> detail, session |-> session]
RowsOf(c, t) ==
    IF c = {} THEN {{}}
    ELSE CASE t = "messages" -> {{Stored(1, "created_at" \in c, TRUE, TRUE)}}
           [] t = "audit_logs" -> {{Stored(1, TRUE, d, TRUE)} : d \in {"log_id" \notin c, TRUE}}
           [] t = "workspace_restore_state" -> {{Stored(1, TRUE, TRUE, TRUE), Stored(2, TRUE, TRUE, "snapshot" \in c)}}
           [] OTHER -> {{Stored(1, TRUE, TRUE, TRUE)}}
MCDatabases ==
    {[columns |-> [t \in Table |-> CASE t = "sessions" -> s [] t = "messages" -> m [] t = "audit_logs" -> a
                                     [] t = "diagnostic_issues" -> d [] t = "workspace_restore_state" -> w
                                     [] OTHER -> IF s = {} THEN {} ELSE Schema(t)],
      rows |-> [t \in Table |-> CASE t = "messages" -> rm [] t = "audit_logs" -> ra
                                  [] t = "workspace_restore_state" -> rw [] OTHER -> {}]] :
        s \in Versions("sessions"), d \in Versions("diagnostic_issues"),
        <<m, rm>> \in UNION {{<<c, r>> : r \in RowsOf(c, "messages")} : c \in Versions("messages")},
        <<a, ra>> \in UNION {{<<c, r>> : r \in RowsOf(c, "audit_logs")} : c \in Versions("audit_logs")},
        <<w, rw>> \in UNION {{<<c, r>> : r \in RowsOf(c, "workspace_restore_state")} :
                                c \in Versions("workspace_restore_state")}}
=============================================================================
