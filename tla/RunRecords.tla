----------------------------- MODULE RunRecords -----------------------------
(***************************************************************************)
(* The record a session keeps of its turns, and what the workspace reads of *)
(* it.  A turn takes the time, makes the row of its run, waits for its      *)
(* predecessor, stores its usage in the row, adds it to the counters of the *)
(* session (first in the object, then in its row) and says how the run      *)
(* ended.  Meanwhile a client stops runs, reads the summary of the usage    *)
(* and walks through the pages of its detail, each of which starts after    *)
(* the last run of the page before; and the process may stop.              *)
(*                                                                         *)
(* A usage is the turn it belongs to: a counter is a set of turns.  Steps   *)
(* of a run, its models and its duration are left out.                     *)
(***************************************************************************)
EXTENDS Naturals, Sequences, FiniteSets, SequencesExt

CONSTANTS Turn,       \* turns, of one session
          Limit,      \* runs a page holds
          MaxClock,   \* bound: milliseconds
          MaxStops,   \* bound: calls of control_run
          MaxWalks,   \* bound: walks through the pages
          MaxCrashes, \* bound: restarts
          None

RunRecordsAssumption ==
    /\ Limit \in Nat \ {0} /\ None \notin Turn
    /\ {MaxClock, MaxStops, MaxWalks, MaxCrashes} \subseteq Nat

VARIABLES
    clock,    \* milliseconds
    pc,       \* [Turn -> "idle", "began", "waiting", "running", "paid", "counted",
              \*  "saved", "ended"]
    started,  \* [Turn -> the time it took]
    runs,     \* rows of the runs, in the order in which they were made
    status,   \* [Turn -> status of the row]
    usage,    \* turns whose row has a usage
    counters, \* of the object: turns that are counted
    row,      \* of the row of the session
    page,     \* the walk: what was read, the rows there were at its start,
              \* whether it goes on
    bounds    \* stops, walks and crashes so far
store   == <<runs, status, usage, row>>
vars == <<clock, pc, started, store, counters, page, bounds>>

NoWalk == [read |-> <<>>, first |-> {}, more |-> FALSE]
Init ==
    /\ clock = 0 /\ pc = [t \in Turn |-> "idle"]
    /\ started = [t \in Turn |-> 0]
    /\ runs = <<>> /\ status = [t \in Turn |-> "none"] /\ usage = {}
    /\ counters = {} /\ row = {}
    /\ page = NoWalk /\ bounds = [stops |-> 0, walks |-> 0, crashes |-> 0]

-----------------------------------------------------------------------------
Tick ==
    /\ clock < MaxClock /\ clock' = clock + 1
    /\ UNCHANGED <<pc, started, store, counters, page, bounds>>
Goes(t, from, to) == pc[t] = from /\ pc' = [pc EXCEPT ![t] = to]

Begin(t) ==
    /\ Goes(t, "idle", "began") /\ started' = [started EXCEPT ![t] = clock]
    /\ UNCHANGED <<clock, store, counters, page, bounds>>
CreateRun(t) ==
    /\ Goes(t, "began", "waiting") /\ runs' = Append(runs, t)
    /\ status' = [status EXCEPT ![t] = "running"]
    /\ UNCHANGED <<clock, started, usage, row, counters, page, bounds>>
Busy == \E t \in Turn : pc[t] \in {"running", "paid", "counted", "saved"}
(* chat_lock.                                                              *)
Lock(t) ==
    /\ ~Busy /\ Goes(t, "waiting", "running")
    /\ UNCHANGED <<clock, started, store, counters, page, bounds>>
(* A turn that fails, for one because it was stopped, has no usage; when    *)
(* what fails is not the agent's turn, the row is left as it is.            *)
Fail(t) ==
    /\ Goes(t, "running", "ended")
    /\ status' = [status EXCEPT ![t] = "failed"] \/ UNCHANGED status
    /\ UNCHANGED <<clock, started, runs, usage, row, counters, page, bounds>>
UpdateUsage(t) ==
    /\ Goes(t, "running", "paid") /\ usage' = usage \cup {t}
    /\ UNCHANGED <<clock, started, runs, status, row, counters, page, bounds>>
(* update_runtime_state.                                                    *)
Count(t) ==
    /\ Goes(t, "paid", "counted") /\ counters' = counters \cup {t}
    /\ UNCHANGED <<clock, started, store, page, bounds>>
(* A mutant: only the turn's own usage is written.                          *)
PersistOwn(t) ==
    /\ Goes(t, "counted", "saved") /\ row' = {t}
    /\ UNCHANGED <<clock, started, runs, status, usage, counters, page, bounds>>
Persist(t) ==
    /\ Goes(t, "counted", "saved") /\ row' = counters
    /\ UNCHANGED <<clock, started, runs, status, usage, counters, page, bounds>>
End(t) ==
    /\ Goes(t, "saved", "ended") /\ status' = [status EXCEPT ![t] = "success"]
    /\ UNCHANGED <<clock, started, runs, usage, row, counters, page, bounds>>

(* control_run: the row is marked whatever it says; an action the code does *)
(* not know is written as the status.  A stop also cancels the token of the *)
(* session, and its turn, whichever it is, may Fail.                       *)
ControlRun(t, action) ==
    /\ t \in ToSet(runs) /\ bounds.stops < MaxStops
    /\ bounds' = [bounds EXCEPT !.stops = @ + 1]
    /\ status' = [status EXCEPT ![t] = IF action = "stop" THEN "stopped" ELSE action]
    /\ UNCHANGED <<clock, pc, started, runs, usage, row, counters, page>>

(* The process stops: what is not stored is lost, and no turn goes on.      *)
Crash ==
    /\ bounds.crashes < MaxCrashes /\ bounds' = [bounds EXCEPT !.crashes = @ + 1]
    /\ pc' = [t \in Turn |-> IF pc[t] = "idle" THEN "idle" ELSE "ended"]
    /\ counters' = row /\ page' = NoWalk
    /\ UNCHANGED <<clock, started, store>>

-----------------------------------------------------------------------------
(* list_runs: the newest first, of one time the one that was made first.    *)
Newer(m, n) ==
    started[runs[m]] > started[runs[n]] \/ (started[runs[m]] = started[runs[n]] /\ m < n)
Place(n) == Cardinality({m \in DOMAIN runs : m = n \/ Newer(m, n)})
ListRuns == [k \in DOMAIN runs |-> runs[CHOOSE n \in DOMAIN runs : Place(n) = k]]

(* get_session_token_usage: what is counted, and the newest usage there is. *)
WithUsage == SelectSeq(ListRuns, LAMBDA t : t \in usage)
Summary == [counted |-> counters, turns |-> Len(runs),
            missing |-> Cardinality(ToSet(runs) \ usage),
            last    |-> IF WithUsage = <<>> THEN None ELSE Head(WithUsage)]

(* get_session_token_usage_detail: the runs after the one named; all of     *)
(* them when there is none.                                                *)
(* Mutant: the page starts with the run it is to start after.               *)
DetailAgain(before) ==
    LET list == ListRuns
        at   == IF before \in ToSet(list) THEN CHOOSE n \in DOMAIN list : list[n] = before ELSE 1
    IN  SubSeq(list, at, Len(list))
Detail(before) ==
    LET list == ListRuns
        at   == IF before \in ToSet(list) THEN CHOOSE n \in DOMAIN list : list[n] = before ELSE 0
    IN  SubSeq(list, at + 1, Len(list))
Take(list) == SubSeq(list, 1, IF Len(list) < Limit THEN Len(list) ELSE Limit)

(* A client walks through the pages, each after the last run it has.        *)
FirstPage ==
    /\ ~page.more /\ bounds.walks < MaxWalks
    /\ bounds' = [bounds EXCEPT !.walks = @ + 1]
    /\ page' = [read |-> Take(Detail(None)), first |-> ToSet(runs),
                more |-> Len(Detail(None)) > Limit]
    /\ UNCHANGED <<clock, pc, started, store, counters>>
NextPage ==
    /\ page.more
    /\ LET rest == Detail(Last(page.read))
       IN  page' = [page EXCEPT !.read = @ \o Take(rest), !.more = Len(rest) > Limit]
    /\ UNCHANGED <<clock, pc, started, store, counters, bounds>>

Next ==
    \/ Tick \/ Crash \/ FirstPage \/ NextPage
    \/ \E t \in Turn :
          \/ Begin(t) \/ CreateRun(t) \/ Lock(t) \/ Fail(t) \/ UpdateUsage(t)
          \/ Count(t) \/ Persist(t) \/ End(t)
          \/ \E action \in {"stop", "archived"} : ControlRun(t, action)
Spec == Init /\ [][Next]_vars

-----------------------------------------------------------------------------
(* Whoever walks through the pages while turns go on sees each run that     *)
(* there was at the beginning, and none twice, the newest first.            *)
PagesWhole ==
    /\ IsInjective(page.read)
    /\ \A m, n \in DOMAIN page.read :
          m < n => started[page.read[m]] >= started[page.read[n]]
    /\ ~page.more => page.first \subseteq ToSet(page.read)

(* The summary adds up: what the session has counted is the usage of its    *)
(* runs, but for a turn that is about to be counted or whose process        *)
(* stopped before; and neither a run nor a restart takes it back.           *)
CountersAreRuns ==
    /\ row \subseteq Summary.counted /\ Summary.counted \subseteq usage
    /\ bounds.crashes = 0 => usage \ Summary.counted \subseteq {t \in Turn : pc[t] = "paid"}
    /\ Cardinality({t \in ToSet(runs) : t \notin Summary.counted}) >= Summary.missing
    /\ \A t \in Turn : pc[t] \in {"saved", "ended"} /\ status[t] = "success" => t \in row
=============================================================================
