---------------------------- MODULE Orchestration ----------------------------
(***************************************************************************)
(* An orchestration plan: validate_and_sort, and OrchestratorEngine::       *)
(* execute_plan with the scheduler of its stages, the review and the        *)
(* retries it asks for.                                                    *)
(*                                                                         *)
(* Stages run one after the other in an order their dependencies allow.     *)
(* The agents of a parallel stage are tasks of a JoinSet, those of a serial *)
(* stage run in turn.  The first stage that fails is the last that runs.    *)
(*                                                                         *)
(* The engine is given a cancellation token.  Spec cancels it at any time,  *)
(* as a caller of execute_plan can.  ToolSpec is the engine as a turn calls *)
(* it: the context of a tool carries no token, OrchestrateTask makes a      *)
(* fresh one, and a stop of the turn reaches nothing here.                  *)
(*                                                                         *)
(* Abstracted: prompts, outputs and the events of the steps; a sub-agent    *)
(* is a task that succeeds, fails or panics.                                *)
(***************************************************************************)
EXTENDS Naturals, Sequences, FiniteSets, SequencesExt

CONSTANTS Agent,      \* the agents of all plans
          Unknown,    \* the name a panicked task is recorded under
          StageId,    \* the stages of all plans
          Plans,      \* the plans that can be submitted
          MaxPanics   \* bound: tasks that panic

Stage == [id : StageId, parallel : BOOLEAN, deps : SUBSET StageId, agents : Seq(Agent)]
Plan  == [stages : Seq(Stage), review : BOOLEAN, retries : Nat,
          named : BOOLEAN,     \* has a plan_id
          shorthand : BOOLEAN] \* made by the tool of a prompt
(* build_shorthand_plan: a single agent, which nobody reviews.              *)
Shorthand(s, a) ==
    [stages |-> <<[id |-> s, parallel |-> TRUE, deps |-> {}, agents |-> <<a>>]>>,
     review |-> FALSE, retries |-> 1, named |-> TRUE, shorthand |-> TRUE]

ASSUME PlanAssumption ==
    /\ Plans \subseteq Plan
    /\ \A p \in Plans : p.shorthand =>
          \E s \in StageId, a \in Agent : p = Shorthand(s, a)
    /\ \A p \in Plans : \A n \in DOMAIN p.stages : IsFiniteSet(p.stages[n].deps)
    /\ Unknown \notin Agent
    /\ MaxPanics \in Nat

VARIABLES
    plan,
    pc,        \* "sort", "stages", "announce", "parallel", "serial", "review",
               \* "retry", "again", "retrying", "end"
    indegree,  \* topological_sort: dependencies not yet placed
    queue,     \* topological_sort: stages to place
    ordered,   \* topological_sort: stages placed, then plan.stages
    at,        \* the stage of the loop of execute_all_stages
    passed,    \* stage_success: [StageId -> "none", "yes", "no"]
    failure,   \* the failure recorded: "none", "failed", "blocked"
    task,      \* [Agent -> its task]
    joinset,   \* agents of a parallel stage whose task is not yet joined
    pending,   \* pending_agents of a parallel stage
    gathered,  \* the results of the stage, as <<agent, status>>
    results,   \* [Agent or Unknown -> status]
    retry,     \* agents that are still to be retried
    rounds,    \* retries made
    reported,  \* overall_success of orchestration_complete
    cancelled, \* the token of the engine
    stopped,   \* the user has stopped the turn
    ran,       \* history: [Agent -> how often it was started]
    late,      \* history: steps that started agents after the stop
    panics

sorting   == <<indegree, queue, ordered>>
progress  == <<at, passed, failure>>
started   == <<ran, late>>
execution == <<task, joinset, pending, gathered, started, panics>>
reviewing == <<retry, rounds>>
vars == <<plan, pc, sorting, progress, execution, results, reviewing, reported,
          cancelled, stopped>>

Ids(p)      == {p.stages[n].id : n \in DOMAIN p.stages}
Named(p, s) == p.stages[CHOOSE n \in DOMAIN p.stages : p.stages[n].id = s]
Deps(p, s)  == Named(p, s).deps
Members(s)  == ToSet(s.agents)
Current     == ordered[at]

(* The members of a sequence that are in S, in their order.                 *)
Only(s, S) ==
    LET f[n \in 0 .. Len(s)] ==
            IF n = 0 THEN <<>>
            ELSE IF s[n] \in S THEN Append(f[n - 1], s[n]) ELSE f[n - 1]
    IN f[Len(s)]

Init ==
    /\ plan \in Plans
    /\ pc = "sort"
    /\ indegree = [s \in Ids(plan) |-> Cardinality(Deps(plan, s))]
    /\ queue \in SetToSeqs({s \in Ids(plan) : Deps(plan, s) = {}})
    /\ ordered = <<>>
    /\ at = 1
    /\ passed = [s \in StageId |-> "none"]
    /\ failure = "none"
    /\ task = [a \in Agent |-> "idle"]
    /\ joinset = {} /\ pending = <<>> /\ gathered = <<>>
    /\ results = [a \in Agent \cup {Unknown} |-> "none"]
    /\ retry = <<>> /\ rounds = 0
    /\ reported = "none"
    /\ cancelled = FALSE /\ stopped = FALSE
    /\ ran = [a \in Agent |-> 0] /\ late = 0
    /\ panics = 0
-----------------------------------------------------------------------------
(***************************************************************************)
(* validate_and_sort.  A plan is refused when it has no id, two stages or   *)
(* two agents have one id, or a stage depends on one that is not there.     *)
(***************************************************************************)
KnownDeps(p) == \A n \in DOMAIN p.stages : p.stages[n].deps \subseteq Ids(p)
UniqueAgents(p) == IsInjective(FlattenSeq([n \in DOMAIN p.stages |-> p.stages[n].agents]))
WellFormed(p) ==
    /\ p.named
    /\ Cardinality(Ids(p)) = Len(p.stages)
    /\ KnownDeps(p) /\ UniqueAgents(p)

Refuse ==
    /\ pc = "sort" /\ ~WellFormed(plan)
    /\ pc' = "end"
    /\ UNCHANGED <<plan, sorting, progress, execution, results, reviewing, reported,
                   cancelled, stopped>>

(***************************************************************************)
(* The queue starts with the stages without dependency  *)
(* in the order of a HashMap, any order.                                   *)
(***************************************************************************)
(* Mutant: a stage is placed when its first dependency is. *)
ReleasedByFirst(s) ==
    Only([n \in DOMAIN plan.stages |-> plan.stages[n].id],
         {r \in Ids(plan) : s \in Deps(plan, r)
                              /\ indegree[r] = Cardinality(Deps(plan, r))})

(* Stages of which s was the last dependency that was not placed. *)
Released(s) ==
    Only([n \in DOMAIN plan.stages |-> plan.stages[n].id],
         {r \in Ids(plan) : s \in Deps(plan, r) /\ indegree[r] = 1})

Place ==
    /\ pc = "sort" /\ WellFormed(plan) /\ queue # <<>>
    /\ ordered' = Append(ordered, Named(plan, Head(queue)))
    /\ indegree' = [r \in DOMAIN indegree |->
                       IF Head(queue) \in Deps(plan, r) THEN indegree[r] - 1
                       ELSE indegree[r]]
    /\ queue' = Tail(queue) \o Released(Head(queue))
    /\ UNCHANGED <<plan, pc, progress, execution, results, reviewing, reported,
                   cancelled, stopped>>

(* The plan is refused when a stage is left over. *)
Sorted ==
    /\ pc = "sort" /\ WellFormed(plan) /\ queue = <<>>
    /\ pc' = IF Len(ordered) = Len(plan.stages) THEN "stages" ELSE "end"
    /\ UNCHANGED <<plan, sorting, progress, execution, results, reviewing, reported,
                   cancelled, stopped>>
-----------------------------------------------------------------------------
(***************************************************************************)
(* The agents.                                                             *)
(***************************************************************************)
Run(as) ==
    /\ task' = [a \in Agent |-> IF a \in as THEN "running" ELSE task[a]]
    /\ ran' = [a \in Agent |-> IF a \in as THEN ran[a] + 1 ELSE ran[a]]
    /\ late' = IF stopped /\ as # {} THEN late + 1 ELSE late

(* A task ends.  What its sub-agent does is not the engine's business. *)
AgentEnds(a) ==
    /\ task[a] = "running" /\ pc # "end"
    /\ \E how \in {"success", "failed", "panicked"} :
          /\ how = "panicked" => panics < MaxPanics
          /\ panics' = IF how = "panicked" THEN panics + 1 ELSE panics
          /\ task' = [task EXCEPT ![a] = how]
    /\ UNCHANGED <<plan, pc, sorting, progress, joinset, pending, gathered,
                   started, results, reviewing, reported, cancelled, stopped>>

(* Cancelled results for the agents a stage has no other result for. *)
Fill(agents) == [n \in DOMAIN agents |-> <<agents[n], "cancelled">>]

(* Mutant: one agent that succeeds is enough. *)
HoldsForOne(rs) == \E n \in DOMAIN rs : rs[n][2] = "success"

(* The end of a stage: its results become results of the plan. *)
Holds(rs) == \A n \in DOMAIN rs : rs[n][2] = "success"

CloseStage(rs) ==
    /\ passed' = [passed EXCEPT ![Current.id] = IF Holds(rs) THEN "yes" ELSE "no"]
    /\ results' = [a \in DOMAIN results |->
                      IF \E n \in DOMAIN rs : rs[n][1] = a
                      THEN rs[CHOOSE n \in DOMAIN rs : rs[n][1] = a][2]
                      ELSE results[a]]
    /\ failure' = IF Holds(rs) THEN failure ELSE "failed"
    /\ at' = at + 1
    /\ gathered' = <<>>
    /\ pc' = "stages"
-----------------------------------------------------------------------------
(***************************************************************************)
(* execute_all_stages.                                                     *)
(***************************************************************************)
Blocked(s) == \E d \in s.deps : passed[d] # "yes"

InLoop == pc = "stages" /\ at <= Len(ordered) /\ ~cancelled

(* A stage that is not run: blocked, or after a failure. *)
SkipStage ==
    /\ InLoop
    /\ \/ Blocked(Current) /\ failure' = "blocked"
       \/ ~Blocked(Current) /\ failure # "none" /\ UNCHANGED failure
    /\ at' = at + 1
    /\ UNCHANGED <<plan, pc, sorting, passed, execution, results, reviewing,
                   reported, cancelled, stopped>>

(* The agents of the stage are announced, event by event. *)
StartStage ==
    /\ InLoop /\ ~Blocked(Current) /\ failure = "none"
    /\ pc' = "announce"
    /\ UNCHANGED <<plan, sorting, progress, execution, results, reviewing,
                   reported, cancelled, stopped>>

(* run_stage: the tasks of a parallel stage are spawned without another     *)
(* look at the token.                                                      *)
Launch ==
    /\ pc = "announce"
    /\ IF Current.parallel
       THEN /\ Run(Members(Current))
            /\ joinset' = Members(Current)
            /\ pending' = Current.agents
            /\ pc' = "parallel"
       ELSE pc' = "serial" /\ UNCHANGED <<task, started, joinset, pending>>
    /\ UNCHANGED <<plan, sorting, progress, gathered, panics, results, reviewing,
                   reported, cancelled, stopped>>

(* Mutant: a task that panicked is never taken from the set. *)
JoinResult(a) ==
    /\ pc = "parallel" /\ a \in joinset
    /\ task[a] \in {"success", "failed"}
    /\ joinset' = joinset \ {a}
    /\ gathered' = Append(gathered, <<a, task[a]>>)
    /\ pending' = Only(pending, Agent \ {a})
    /\ UNCHANGED <<plan, pc, sorting, progress, task, started, panics, results,
                   reviewing, reported, cancelled, stopped>>

(* join_next.  The result of a panicked task names no agent, and the agent  *)
(* stays among the pending ones.                                           *)
Join(a) ==
    /\ pc = "parallel" /\ a \in joinset
    /\ task[a] \in {"success", "failed", "panicked"}
    /\ joinset' = joinset \ {a}
    /\ IF task[a] = "panicked"
       THEN gathered' = Append(gathered, <<Unknown, "failed">>) /\ UNCHANGED pending
       ELSE /\ gathered' = Append(gathered, <<a, task[a]>>)
            /\ pending' = Only(pending, Agent \ {a})
    /\ UNCHANGED <<plan, pc, sorting, progress, task, started, panics, results,
                   reviewing, reported, cancelled, stopped>>

(* abort_all: the tasks that still run are aborted. *)
Aborted(as) == [a \in Agent |-> IF a \in as /\ task[a] = "running"
                                THEN "aborted" ELSE task[a]]

(* Mutant: a stage that was cancelled reports only what it has joined. *)
ParallelEndsShort ==
    /\ pc = "parallel" /\ (joinset = {} \/ cancelled)
    /\ task' = Aborted(joinset)
    /\ joinset' = {} /\ pending' = <<>>
    /\ CloseStage(gathered)
    /\ UNCHANGED <<plan, sorting, started, panics, reviewing, reported, cancelled, stopped>>

(* The JoinSet is drained, or the token is seen. *)
ParallelEnds ==
    /\ pc = "parallel" /\ (joinset = {} \/ cancelled)
    /\ task' = Aborted(joinset)
    /\ joinset' = {} /\ pending' = <<>>
    /\ CloseStage(IF cancelled THEN gathered \o Fill(pending) ELSE gathered)
    /\ UNCHANGED <<plan, sorting, started, panics, reviewing, reported, cancelled, stopped>>

(* execute_serial: one agent after the other, each when the one before it   *)
(* has succeeded.                                                          *)
Left   == SubSeq(Current.agents, Len(gathered) + 1, Len(Current.agents))
InTurn == pc = "serial" /\ Left # <<>>
Due    == Head(Left)

(* An agent of this stage is idle until its turn comes. *)
SerialStart ==
    /\ InTurn /\ ~cancelled /\ task[Due] = "idle"
    /\ Run({Due})
    /\ UNCHANGED <<plan, pc, sorting, progress, joinset, pending, gathered, panics,
                   results, reviewing, reported, cancelled, stopped>>

SerialNext ==
    /\ InTurn /\ task[Due] = "success"
    /\ gathered' = Append(gathered, <<Due, "success">>)
    /\ UNCHANGED <<plan, pc, sorting, progress, task, joinset, pending, started, panics,
                   results, reviewing, reported, cancelled, stopped>>

SerialEnds ==
    /\ pc = "serial"
    /\ \/ Left = <<>> /\ CloseStage(gathered)
       \/ /\ InTurn /\ cancelled /\ task[Due] = "idle"
          /\ CloseStage(gathered \o Fill(Left))
       \/ /\ InTurn /\ task[Due] = "failed"
          /\ CloseStage(Append(gathered, <<Due, "failed">>) \o Fill(Tail(Left)))
    /\ UNCHANGED <<plan, sorting, task, joinset, pending, started, panics, reviewing,
                   reported, cancelled, stopped>>
-----------------------------------------------------------------------------
(***************************************************************************)
(* The end of the plan: execute_plan after its stages, the review.          *)
(***************************************************************************)
Report(success) ==
    /\ reported' = IF success THEN "success" ELSE "failure"
    /\ pc' = "end"

Settle ==
    /\ pc = "stages" /\ (at > Len(ordered) \/ cancelled)
    /\ \/ cancelled /\ Report(FALSE)
       \/ /\ ~cancelled /\ \A a \in DOMAIN results : results[a] = "none"
          /\ Report(TRUE)
       \/ /\ ~cancelled /\ \E a \in DOMAIN results : results[a] # "none"
          /\ IF failure # "none" THEN Report(FALSE)
             ELSE IF ~plan.review THEN Report(TRUE)
             ELSE pc' = "review" /\ UNCHANGED reported
    /\ UNCHANGED <<plan, sorting, progress, execution, results, reviewing,
                   cancelled, stopped>>

(* The agents to retry, in the order of the plan. *)
InPlanOrder(as) ==
    Only(FlattenSeq([n \in DOMAIN ordered |-> ordered[n].agents]), as)

(* Mutant: one retry more than the plan allows. *)
MayRetryMore == rounds <= plan.retries /\ ~cancelled

MayRetry == rounds < plan.retries /\ ~cancelled

(* What a reviewer can say, and how: as all of its answer, in the first     *)
(* object its answer holds, behind another one, or not at all.              *)
Verdict  == [approves : BOOLEAN, again : SUBSET Agent]
Answer   == {"alone", "first", "behind", "missing", "error"}
Approval == [approves |-> TRUE, again |-> {}]
(* parse_review_result: the text, or else the first object in it.           *)
Parses(answer) == answer \in {"alone", "first"}
(* run_review: a reviewer that fails or is not understood has approved.     *)
Reviewed(answer, verdict) == IF Parses(answer) THEN verdict ELSE Approval

Review ==
    /\ pc = "review"
    /\ \E verdict \in {Reviewed(a, v) : a \in Answer, v \in Verdict} :
          IF ~verdict.approves /\ verdict.again # {} /\ MayRetry
          THEN /\ rounds' = rounds + 1
               /\ retry' = InPlanOrder(verdict.again)
               /\ pc' = "retry"
               /\ UNCHANGED reported
          ELSE Report(verdict.approves) /\ UNCHANGED reviewing
    /\ UNCHANGED <<plan, sorting, progress, execution, results, cancelled, stopped>>

(* Mutant: the token is not looked at between two agents. *)
AnnounceRetryAnyway ==
    /\ pc = "retry" /\ retry # <<>>
    /\ pc' = "again"
    /\ UNCHANGED <<plan, sorting, progress, execution, results, reviewing,
                   reported, cancelled, stopped>>

(* retry_agents: the first of the list is announced, started, and replaced  *)
(* by its result; a token that is seen before drops the rest.              *)
AnnounceRetry ==
    /\ pc = "retry" /\ retry # <<>> /\ ~cancelled
    /\ pc' = "again"
    /\ UNCHANGED <<plan, sorting, progress, execution, results, reviewing,
                   reported, cancelled, stopped>>

RetryStart ==
    /\ pc = "again"
    /\ Run({Head(retry)})
    /\ pc' = "retrying"
    /\ UNCHANGED <<plan, sorting, progress, joinset, pending, gathered, panics,
                   results, reviewing, reported, cancelled, stopped>>

RetryEnds ==
    /\ pc = "retrying" /\ task[Head(retry)] \in {"success", "failed"}
    /\ results' = [results EXCEPT ![Head(retry)] = task[Head(retry)]]
    /\ retry' = Tail(retry)
    /\ pc' = "retry"
    /\ UNCHANGED <<plan, sorting, progress, execution, rounds, reported, cancelled,
                   stopped>>

RetriesDone ==
    /\ pc = "retry" /\ (retry = <<>> \/ cancelled)
    /\ pc' = "review" /\ retry' = <<>>
    /\ UNCHANGED <<plan, sorting, progress, execution, results, rounds, reported,
                   cancelled, stopped>>

(* The engine runs an agent of a serial stage or of a retry itself, and     *)
(* panics with it; or its future is dropped, by the timeout of the tool or  *)
(* with the turn, and its tasks are aborted.                                *)
Panics ==
    /\ \/ InTurn /\ task[Due] = "panicked"
       \/ pc = "retrying" /\ task[Head(retry)] = "panicked"
    /\ pc' = "end"
    /\ UNCHANGED <<plan, sorting, progress, execution, results, reviewing, reported,
                   cancelled, stopped>>

Dropped ==
    /\ pc \notin {"sort", "end"}
    /\ pc' = "end"
    /\ task' = Aborted(Agent)
    /\ joinset' = {}
    /\ UNCHANGED <<plan, sorting, progress, pending, gathered, started, panics, results,
                   reviewing, reported, cancelled, stopped>>

(* The holder of the token cancels it. *)
Cancel ==
    /\ ~cancelled /\ pc # "end"
    /\ cancelled' = TRUE /\ stopped' = TRUE
    /\ UNCHANGED <<plan, pc, sorting, progress, execution, results, reviewing, reported>>

(* A stop of the turn, when the tool was given no token. *)
StopTurn ==
    /\ ~stopped /\ pc # "end"
    /\ stopped' = TRUE
    /\ UNCHANGED <<plan, pc, sorting, progress, execution, results, reviewing, reported,
                   cancelled>>

Engine ==
    \/ Refuse \/ Place \/ Sorted \/ SkipStage \/ StartStage \/ Launch \/ ParallelEnds
    \/ SerialStart \/ SerialNext \/ SerialEnds \/ Settle \/ Review
    \/ AnnounceRetry \/ RetryStart \/ RetryEnds \/ RetriesDone \/ Panics
    \/ \E a \in Agent : AgentEnds(a) \/ Join(a)

Spec     == Init /\ [][Engine \/ Dropped \/ Cancel]_vars /\ WF_vars(Engine)
ToolSpec == Init /\ [][Engine \/ Dropped \/ StopTurn]_vars /\ WF_vars(Engine)
-----------------------------------------------------------------------------
(***************************************************************************)
(* Properties.                                                             *)
(***************************************************************************)
Status == {"none", "success", "failed", "cancelled"}

(* Every agent is started at most once for its stage and once for each      *)
(* retry the plan allows; a result stands where the loop has been.          *)
TypeOK ==
    /\ plan \in Plans
    /\ pc \in {"sort", "stages", "announce", "parallel", "serial", "review",
               "retry", "again", "retrying", "end"}
    /\ indegree \in [Ids(plan) -> Nat]
    /\ queue \in Seq(StageId)
    /\ ordered \in Seq(Stage)
    /\ at \in 1 .. Len(ordered) + 1
    /\ passed \in [StageId -> {"none", "yes", "no"}]
    /\ failure \in {"none", "failed", "blocked"}
    /\ task \in [Agent -> {"idle", "running", "success", "failed", "panicked", "aborted"}]
    /\ joinset \in SUBSET Agent
    /\ pending \in Seq(Agent)
    /\ gathered \in Seq((Agent \cup {Unknown}) \X Status)
    /\ results \in [Agent \cup {Unknown} -> Status]
    /\ retry \in Seq(Agent)
    /\ rounds \in 0 .. plan.retries
    /\ reported \in {"none", "success", "failure"}
    /\ {cancelled, stopped} \subseteq BOOLEAN
    /\ ran \in [Agent -> 0 .. rounds + 1]
    /\ late \in Nat
    /\ panics \in 0 .. MaxPanics

(* Stages that wait for each other: each has a dependency among them. *)
Cyclic(p) ==
    \E S \in SUBSET Ids(p) : S # {} /\ \A s \in S : Deps(p, s) \cap S # {}

(* A plan that makes sense is given an order, with every stage after its    *)
(* dependencies and in it once; of any other plan nobody is started and     *)
(* nothing is reported.                                                     *)
SortCorrect ==
    /\ \A n \in DOMAIN ordered :
          Deps(plan, ordered[n].id) \subseteq {ordered[m].id : m \in 1 .. n - 1}
    /\ IsInjective(ordered)
    /\ pc # "sort" =>
          IF WellFormed(plan) /\ ~Cyclic(plan) THEN Len(ordered) = Len(plan.stages)
          ELSE pc = "end" /\ reported = "none" /\ \A a \in Agent : ran[a] = 0

AgentsOf(s)  == Members(Named(plan, s))
Starts(a)    == task[a] # "running" /\ task'[a] = "running"

(* An agent is started for its stage only when every agent of every stage   *)
(* its stage depends on has a result, and the result is success; and no     *)
(* agent of a stage is started once an agent of an earlier one has failed.  *)
AfterDependencies ==
    [][\A s \in Ids(plan) : \A a \in AgentsOf(s) :
          Starts(a) /\ ran[a] = 0 =>
            /\ \A d \in Deps(plan, s) : \A b \in AgentsOf(d) : results[b] = "success"
            /\ \A b \in Agent \ AgentsOf(s) : results[b] \in {"none", "success"}]_vars

(* After a stop agents are started once more at most: those of the stage,   *)
(* or the retry, that was being announced when the stop came.  (The         *)
(* reviewer is not one of the agents: it is asked once more.)              *)
StopEndsStarts == late <= 1

(* When the orchestration has reported, every agent of a stage that was     *)
(* run has one result and no other agent has any.  The result is the way    *)
(* the agent's last execution ended, or cancelled: then the token was       *)
(* cancelled or an agent of its serial stage failed.  A panicked task of a  *)
(* parallel stage is the exception: its result is recorded under Unknown.   *)
ResultsAccounted ==
    reported # "none" =>
      \A s \in Ids(plan) : \A a \in AgentsOf(s) :
         IF passed[s] = "none" THEN results[a] = "none" /\ ran[a] = 0
         ELSE \/ results[a] \in {"success", "failed"} /\ results[a] = task[a]
              \/ results[a] = "cancelled" /\ task[a] # "running"
                 /\ (cancelled \/ \E b \in AgentsOf(s) : task[b] = "failed")
              \/ results[a] = "none" /\ task[a] = "panicked"
                 /\ results[Unknown] = "failed"

(* What the tool tells the model at the end: an error, the output of the    *)
(* agent of a shorthand plan, or the success of the review, which a plan    *)
(* without review has not.                                                  *)
Told == CASE reported = "none" -> "error"
          [] reported # "none" /\ plan.shorthand -> "output"
          [] reported # "none" /\ plan.review /\ ~plan.shorthand -> reported
          [] OTHER -> "failure"

(* Success is reported, and told, only for a plan all of whose stages were run with    *)
(* success; without a review this is the result of every agent, and with    *)
(* one only a retried agent can have another.                               *)
SuccessEarned ==
    reported = "success" \/ Told = "success" =>
      \A s \in Ids(plan) :
         /\ passed[s] = "yes"
         /\ \A a \in AgentsOf(s) : results[a] = "success" \/ (plan.review /\ ran[a] > 1)

(* The order of the stages, the results of the agents and the success that   *)
(* is reported are those of the executions, and a stop ends the starts       *)
(* (planner.rs:112, mod.rs:132, mod.rs:228).                                *)
ResultsEarned ==
    TypeOK /\ SortCorrect /\ ResultsAccounted /\ SuccessEarned /\ StopEndsStarts

(* Every orchestration ends. *)
Ends == <>(pc = "end")
=============================================================================
