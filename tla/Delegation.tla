----------------------------- MODULE Delegation -----------------------------
(***************************************************************************)
(* How OrchestrateTask makes a sub-agent: run_subagent and the services it  *)
(* uses.  Every delegation gets a tool registry of its own, filled with the *)
(* built-in tools, the tools of tools.d and the tools the host has seeded   *)
(* so far; its system prompt is the text of the skill it names, which a     *)
(* hook of the host may rewrite, or else is built from the agent's own.     *)
(* Delegations run at the same time, while the host seeds tools, and a      *)
(* sub-agent may try to delegate in turn: the AgentTool of its registry has *)
(* no services.                                                            *)
(*                                                                         *)
(* What a sub-agent's turn does is left out: it ends well or fails.         *)
(***************************************************************************)
EXTENDS FiniteSets

CONSTANTS Call,     \* delegations
          Agent,    \* configured agents
          Default,  \* the first of them
          Stranger, \* a name no agent has
          Prompts,  \* [Agent -> what its configuration says of its prompt]
          Files,    \* prompt files that can be read
          Skill,    \* registered skills
          Missing,  \* a slug no skill has
          Preload,  \* [Skill -> deferred tools it asks for]
          External, \* tools of tools.d
          Seed,     \* tools the host may seed
          None

Turn   == "turn"            \* the caller that is no delegation
Tool   == External \cup Seed \cup UNION {Preload[s] : s \in Skill}
Prompt == [file : Files \cup {Missing, None}, inline : {"inline", None},
           legacy : {"legacy", None}, default : Files \cup {Missing}]

DelegationAssumption ==
    /\ Default \in Agent /\ Stranger \notin Agent /\ Missing \notin Skill \cup Files
    /\ None \notin Skill
    /\ Prompts \in [Agent -> Prompt] /\ {Missing, None} \cap Files = {}

VARIABLES
    seeds,     \* native_deferred_seeds, one table for all clones of the builder
    hook,      \* the slot of the host's hook: "none", "rewrites", "fails"
    pc,        \* [Call -> "idle", "hook", "build", "prompt", "session", "preload",
               \*  "running", "ended"]
    asked,     \* [Call -> its caller, the agent and the skill it names]
    agent,     \* [Call -> the agent it runs as]
    told,      \* [Call -> system prompt, as <<kind, of, rewritten>>]
    registry,  \* [Call -> deferred tools of its registry]
    active,    \* [Call -> those activated for its session]
    result,    \* [Call -> "none", "answer", "empty", "error"]
    known      \* history: [Call -> tools seeded when it began]
vars == <<seeds, hook, pc, asked, agent, told, registry, active, result, known>>

Untold    == <<"none", None, FALSE>>
NoRequest == [caller |-> Turn, agent |-> None, skill |-> None]
Request   == [caller : Call \cup {Turn}, agent : Agent \cup {Stranger, None},
              skill : Skill \cup {Missing, None}]

Init ==
    /\ seeds = {} /\ hook = "none"
    /\ pc = [c \in Call |-> "idle"]
    /\ asked = [c \in Call |-> NoRequest]
    /\ agent = [c \in Call |-> None]
    /\ told = [c \in Call |-> Untold]
    /\ registry = [c \in Call |-> {}]
    /\ active = [c \in Call |-> {}]
    /\ result = [c \in Call |-> "none"]
    /\ known = [c \in Call |-> {}]

-----------------------------------------------------------------------------
(* register_native_deferred_seed; the host sets or replaces its hook.       *)
SeedTool(t) ==
    /\ t \in Seed \ seeds /\ seeds' = seeds \cup {t}
    /\ UNCHANGED <<hook, pc, asked, agent, told, registry, active, result, known>>
SetHook(h) ==
    /\ h # hook /\ hook' = h
    /\ UNCHANGED <<seeds, pc, asked, agent, told, registry, active, result, known>>

(* run_stage checks the agent against the catalogue, run_subagent against   *)
(* the table it was made from: an unknown one is the first configured.      *)
Chosen(a) == IF a \in Agent THEN a ELSE Default

(* A skill that is not there ends the delegation: no turn, and an answer    *)
(* without text.                                                           *)
Begin(c, r) ==
    /\ pc[c] = "idle" /\ (r.caller \in Call => pc[r.caller] = "running")
    /\ asked' = [asked EXCEPT ![c] = r]
    /\ agent' = [agent EXCEPT ![c] = Chosen(r.agent)]
    /\ known' = [known EXCEPT ![c] = seeds]
    /\ pc' = [pc EXCEPT ![c] = IF r.skill = None THEN "build"
                               ELSE IF r.skill = Missing THEN "ended" ELSE "hook"]
    /\ result' = [result EXCEPT ![c] = IF r.skill = Missing THEN "empty" ELSE @]
    /\ UNCHANGED <<seeds, hook, told, registry, active>>

(* The hook rewrites the skill's text; without it, or when it fails, the    *)
(* text is used as it is.                                                  *)
Brief(c) ==
    /\ pc[c] = "hook" /\ pc' = [pc EXCEPT ![c] = "build"]
    /\ told' = [told EXCEPT ![c] = <<"skill", asked[c].skill, hook = "rewrites">>]
    /\ UNCHANGED <<seeds, hook, asked, agent, registry, active, result, known>>

Fail(c) ==
    /\ pc' = [pc EXCEPT ![c] = "ended"] /\ result' = [result EXCEPT ![c] = "error"]

(* Mutant: a clone of the builder has a table of its own.                   *)
DeferredUnshared == External
(* build_runtime: what a new registry can activate.                         *)
Deferred == External \cup seeds
Build(c) ==
    /\ pc[c] = "build"
    /\ IF asked[c].caller # Turn THEN Fail(c) /\ UNCHANGED registry
       ELSE /\ registry' = [registry EXCEPT ![c] = Deferred]
            /\ pc' = [pc EXCEPT ![c] = IF told[c] = Untold THEN "prompt" ELSE "session"]
            /\ UNCHANGED result
    /\ UNCHANGED <<seeds, hook, asked, agent, told, active, known>>

(* load_agent_prompt: the texts an agent may have, in the order in which    *)
(* they count; two of them exclude each other.                             *)
Refused(p)  == p.file # None /\ (p.inline # None \/ p.file \notin Files)
TextOf(p) ==
    IF p.file # None THEN p.file
    ELSE IF p.inline # None THEN p.inline
    ELSE IF p.legacy # None THEN p.legacy
    ELSE IF p.default \in Files THEN p.default ELSE None
LoadPrompt(c) ==
    /\ pc[c] = "prompt"
    /\ IF Refused(Prompts[agent[c]]) THEN Fail(c) /\ UNCHANGED told
       ELSE /\ told' = [told EXCEPT ![c] = <<"agent", TextOf(Prompts[agent[c]]), FALSE>>]
            /\ pc' = [pc EXCEPT ![c] = "session"] /\ UNCHANGED result
    /\ UNCHANGED <<seeds, hook, asked, agent, registry, active, known>>

(* create_child_session, which fails when the caller's session is gone.     *)
OpenSession(c) ==
    /\ pc[c] = "session"
    /\ \/ pc' = [pc EXCEPT ![c] = "preload"] /\ UNCHANGED result
       \/ Fail(c)
    /\ UNCHANGED <<seeds, hook, asked, agent, told, registry, active, known>>

(* The tools the skill names are activated; those the registry does not     *)
(* have are logged.                                                        *)
Wanted(c) == IF asked[c].skill \in Skill THEN Preload[asked[c].skill] ELSE {}
Activate(c) ==
    /\ pc[c] = "preload" /\ pc' = [pc EXCEPT ![c] = "running"]
    /\ active' = [active EXCEPT ![c] = Wanted(c) \cap registry[c]]
    /\ UNCHANGED <<seeds, hook, asked, agent, told, registry, result, known>>

(* The sub-agent's turn ends; one that delegates waits for what it asked.   *)
End(c) ==
    /\ pc[c] = "running" /\ \A d \in Call : asked[d].caller = c => pc[d] = "ended"
    /\ \/ pc' = [pc EXCEPT ![c] = "ended"] /\ result' = [result EXCEPT ![c] = "answer"]
       \/ Fail(c)
    /\ UNCHANGED <<seeds, hook, asked, agent, told, registry, active, known>>

(* Every delegation is over.                                                *)
Over == (\A c \in Call : pc[c] = "ended") /\ UNCHANGED vars

Next ==
    \/ \E t \in Seed : SeedTool(t)
    \/ \E h \in {"none", "rewrites", "fails"} : SetHook(h)
    \/ \E c \in Call, r \in Request : Begin(c, r)
    \/ \E c \in Call : Brief(c) \/ Build(c) \/ LoadPrompt(c) \/ OpenSession(c) \/ Activate(c) \/ End(c)
    \/ Over
Spec == Init /\ [][Next]_vars

-----------------------------------------------------------------------------
(* A sub-agent that runs is what was asked for, however delegations, seeds  *)
(* and hooks interleave.  It was made by a turn and not by a sub-agent; it  *)
(* runs as the agent that was named, if there is one.  With a skill it is   *)
(* told the skill's text and nothing of an agent's, and of the tools the    *)
(* skill asks for it can use all that tools.d and the host had provided     *)
(* when it was asked; without a skill it is told its own agent's text and   *)
(* nothing is activated for it.                                            *)
RunsAsAsked ==
    \A c \in Call : pc[c] = "running" =>
        /\ asked[c].caller = Turn
        /\ asked[c].agent \in Agent => agent[c] = asked[c].agent
        /\ IF asked[c].skill \in Skill
           THEN /\ told[c][1] = "skill" /\ told[c][2] = asked[c].skill
                /\ Preload[asked[c].skill] \cap (External \cup known[c]) \subseteq active[c]
                /\ active[c] \subseteq Preload[asked[c].skill]
           ELSE /\ told[c][1] = "agent" /\ active[c] = {}
                /\ told[c][2] \in {Prompts[agent[c]].file, Prompts[agent[c]].inline,
                                   Prompts[agent[c]].legacy, Prompts[agent[c]].default, None}

(* A delegation that names a skill nobody has is reported as an error.      *)
MissingSkillReported ==
    \A c \in Call : asked[c].skill = Missing /\ pc[c] = "ended" => result[c] = "error"
=============================================================================
