---------------------------- MODULE Configuration ----------------------------
(***************************************************************************)
(* The configuration from its file to the model a turn runs: loading with   *)
(* the migration of old forms, validation, start-up, config.get and         *)
(* config.update of several clients, the model override of a session and    *)
(* the binding a turn resolves.  Ids of llms and names of models are drawn  *)
(* from one set: nothing keeps them apart.                                  *)
(***************************************************************************)
EXTENDS Naturals, Sequences, SequencesExt

CONSTANTS Raws,       \* what the file can hold at first
          Name,       \* ids of llms, names of models
          Provider,
          Client,
          MaxUpdates  \* bound: updates sent

None == "none"
AgentId == {"a", "b"}
Torn == [torn |-> TRUE]
NoConfig == [none |-> TRUE]
NoOverride == <<>>

VARIABLES
    env,       \* TAVILY_API_KEY is set
    file,      \* what the configuration file holds, or Torn
    phase,     \* "down", "up", "crashed" (loaded, but start-up failed)
    config,    \* config, as loaded
    cache,     \* config_inner and config_snapshot_cache
    client,    \* [Client -> [step, sees, asks]]
    updates,   \* updates sent
    session,   \* [agent, execution]: its agent, and the override of its turns' model
    ran        \* history: the model the last turn resolved
vars == <<env, file, phase, config, cache, client, updates, session, ran>>

-----------------------------------------------------------------------------
(* The sections of the file as serde reads them (the Raw structs): an agent *)
(* has one prompt, none or "both" of the two there may be, its old template *)
(* and the model of its own, which a migrated one always has; a trimmer may *)
(* be missing, or keep the budget of the history of its old form.           *)
Prompt == {None, "inline", "file", "both"}
RawLlms == UNION {[d -> [provider : Provider, model : Name, thinks : {"no", "budget", "both"}]] : d \in SUBSET Name}
RawAgent == [id : AgentId, provider : Provider, llm : Name,
             prompt : Prompt, template : Prompt \ {"both"}, model : {None, "default"} \cup Name]
RawTrimmer == [section : {FALSE}]
    \cup [section : {TRUE}, enabled : BOOLEAN, window : Nat, reserve : Nat, history : Nat]
RawAppConfig == [providers : SUBSET Provider, llms : RawLlms, agents : Seq(RawAgent), trimmer : RawTrimmer,
                 defaults : BOOLEAN, knobs : BOOLEAN, tavily : BOOLEAN, key : BOOLEAN, elsewhere : BOOLEAN]
(* The same without what belongs to old forms only: AppConfig.              *)
AppConfig == {c \in RawAppConfig :
                 /\ ~c.defaults /\ c.trimmer.section /\ c.trimmer.history = 0
                 /\ \A l \in DOMAIN c.llms : c.llms[l].thinks # "both"
                 /\ \A a \in ToSet(c.agents) : a.template = None /\ a.model # None}
ConfigurationAssumption == Raws \subseteq RawAppConfig /\ None \notin Name

-----------------------------------------------------------------------------
(* RawAppConfig::migrate.                                                   *)
Model(llm) == IF llm.thinks = "both" THEN [llm EXCEPT !.thinks = "budget"] ELSE llm
(* system_prompt_template becomes a file or a text, unless one is given;    *)
(* the model of an agent is copied from its llm when the file gives none.   *)
MigrateAgent(a, llms) ==
    [a EXCEPT !.prompt = IF a.prompt = None THEN a.template ELSE a.prompt,
              !.template = None,
              !.model = CASE a.model # None -> a.model
                          [] a.model = None /\ a.llm \in DOMAIN llms -> llms[a.llm].model
                          [] OTHER -> "default"]
(* A section that is missing is a trimmer of zeros that is off.             *)
MigrateTrimmer(t) ==
    IF ~t.section THEN [section |-> TRUE, enabled |-> FALSE, window |-> 0, reserve |-> 0, history |-> 0]
    ELSE IF t.history # 0
    THEN [t EXCEPT !.enabled = TRUE, !.window = t.history + t.reserve, !.history = 0]
    ELSE t
Migrate(raw) ==
    LET llms == [l \in DOMAIN raw.llms |-> Model(raw.llms[l])]
    IN [raw EXCEPT !.llms = llms,
                   !.agents = [i \in DOMAIN @ |-> MigrateAgent(@[i], llms)],
                   !.trimmer = MigrateTrimmer(@)]
(* apply_env_overrides *)
WithEnv(c) == [c EXCEPT !.key = @ \/ env]

(* A mutant: an agent's llm is looked up, not whose it is.                  *)
AgentsValidAnyProvider(c) ==
    /\ c.agents # <<>> /\ IsInjective([i \in DOMAIN c.agents |-> c.agents[i].id])
    /\ \A a \in ToSet(c.agents) :
          a.provider \in c.providers /\ a.llm \in DOMAIN c.llms /\ a.prompt # "both"
AgentsValid(c) ==
    /\ c.agents # <<>> /\ IsInjective([i \in DOMAIN c.agents |-> c.agents[i].id])
    /\ \A a \in ToSet(c.agents) :
          /\ a.provider \in c.providers /\ a.llm \in DOMAIN c.llms
          /\ c.llms[a.llm].provider = a.provider
          /\ a.prompt # "both"
(* validate; the knobs are the fields with a list or a range of values.     *)
Valid(c) ==
    /\ c.providers # {} /\ DOMAIN c.llms # {}
    /\ \A l \in DOMAIN c.llms : c.llms[l].provider \in c.providers
    /\ AgentsValid(c)
    /\ c.knobs /\ (c.tavily => c.key)

Loaded(raw) == WithEnv(Migrate(raw))      \* load_from_file ...
(* ... succeeds: a file with the removed section of defaults is not read.   *)
Loads(raw)  == raw # Torn /\ ~raw.defaults /\ Valid(Loaded(raw))

(* A mutant: the window is written under its old name.                      *)
WrittenOld(c) == [c EXCEPT !.trimmer.history = c.trimmer.window]
(* to_value, from_value and toml::to_string: every field, as it is.         *)
Written(c) == c

-----------------------------------------------------------------------------
(* The binding of a provider and a model: resolve_named_binding,            *)
(* resolve_agent_binding(_by_id), resolve_model_override.                   *)
Failed == [llm |-> None, provider |-> None, model |-> None, thinks |-> None]
Named(c, provider, l) ==
    IF provider \in c.providers /\ l \in DOMAIN c.llms /\ c.llms[l].provider = provider
    THEN [llm |-> l, provider |-> provider, model |-> c.llms[l].model, thinks |-> c.llms[l].thinks]
    ELSE Failed
AgentOf(c, id) == SelectSeq(c.agents, LAMBDA a : a.id = id)
BindingById(c, id) ==
    IF AgentOf(c, id) = <<>> THEN Failed ELSE Named(c, AgentOf(c, id)[1].provider, AgentOf(c, id)[1].llm)
(* A mutant: an id of an llm is taken whoever provides it.                  *)
OverriddenAnyProvider(c, base, provider, name) ==
    IF name \in DOMAIN c.llms THEN [Named(c, c.llms[name].provider, name) EXCEPT !.provider = provider]
    ELSE IF provider \in c.providers THEN [base EXCEPT !.llm = None, !.provider = provider, !.model = name]
    ELSE Failed
(* An id of an llm means that llm, another name a model that is run with    *)
(* the parameters of the base.                                              *)
Overridden(c, base, provider, name) ==
    IF name \in DOMAIN c.llms THEN Named(c, provider, name)
    ELSE IF provider \in c.providers THEN [base EXCEPT !.llm = None, !.provider = provider, !.model = name]
    ELSE Failed

-----------------------------------------------------------------------------
Idle == [step |-> "idle", sees |-> NoConfig, asks |-> NoConfig]
Init ==
    /\ env \in BOOLEAN /\ file \in Raws
    /\ phase = "down" /\ config = NoConfig /\ cache = NoConfig
    /\ client = [c \in Client |-> Idle] /\ updates = 0
    /\ session = [agent |-> "a", execution |-> NoOverride]
    /\ ran = Failed

(* main and build_application: the file is loaded, or the program says why  *)
(* not and ends; then the binding of each agent is resolved.                *)
Builds(c) == \A a \in ToSet(c.agents) : Named(c, a.provider, a.llm) # Failed
Build(c) ==
    /\ config' = c /\ cache' = c
    /\ phase' = IF Builds(c) THEN "up" ELSE "crashed"
Start ==
    /\ phase = "down" /\ Loads(file)
    /\ Build(Loaded(file))
    /\ UNCHANGED <<env, file, client, updates, session, ran>>
Stop ==
    /\ phase = "up"
    /\ phase' = "down" /\ config' = NoConfig /\ cache' = NoConfig
    /\ client' = [c \in Client |-> Idle]
    /\ UNCHANGED <<env, file, updates, session, ran>>

(* config_snapshot: what was loaded.                                        *)
GetConfig(c) ==
    /\ phase = "up" /\ client[c].step = "idle"
    /\ client' = [client EXCEPT ![c].sees = config]
    /\ UNCHANGED <<env, file, phase, config, cache, updates, session, ran>>
(* What a client does to the snapshot it has: bind the first agent to       *)
(* another llm, give an llm another model, spoil a knob.                    *)
Edits(c) ==
    {[c EXCEPT !.agents[1].llm = l] : l \in Name}
    \cup {[c EXCEPT !.llms[l].model = n] : l \in DOMAIN c.llms, n \in Name}
    \cup {[c EXCEPT !.knobs = FALSE]}
(* update_config parses the payload, does not validate it, and writes the   *)
(* file of config_path, which may be another than the one it starts from:   *)
(* first the file is emptied ...                                            *)
Update(c) ==
    /\ phase = "up" /\ client[c].step = "idle" /\ client[c].sees # NoConfig /\ updates < MaxUpdates
    /\ updates' = updates + 1
    /\ \E asks \in Edits(client[c].sees) :
          client' = [client EXCEPT ![c].step = "fill", ![c].asks = asks]
    /\ file' = IF config.elsewhere THEN file ELSE Torn
    /\ UNCHANGED <<env, phase, config, cache, session, ran>>
(* ... then filled, unless that fails; a writer that finds the text of      *)
(* another one writes over it, and the end of a longer text remains.        *)
Fill(c) ==
    /\ phase = "up" /\ client[c].step = "fill"
    /\ client' = [client EXCEPT ![c].step = "store"]
    /\ \/ config.elsewhere /\ UNCHANGED file
       \/ ~config.elsewhere /\ file' = Written(client[c].asks)
       \/ ~config.elsewhere /\ file # Torn /\ file' = Torn
    /\ UNCHANGED <<env, phase, config, cache, updates, session, ran>>
WriteFails(c) ==
    /\ phase = "up" /\ client[c].step = "fill"
    /\ client' = [client EXCEPT ![c].step = "idle"]
    /\ UNCHANGED <<env, file, phase, config, cache, updates, session, ran>>
Store(c) ==
    /\ phase = "up" /\ client[c].step = "store"
    /\ cache' = client[c].asks
    /\ client' = [client EXCEPT ![c].step = "idle"]
    /\ UNCHANGED <<env, file, phase, config, updates, session, ran>>

(* override_session_model: each override is resolved, and the name of the   *)
(* model, not the id of the llm, is kept.  (The override of the             *)
(* orchestration goes the same way and is only shown.)                      *)
Base == BindingById(config, session.agent)
Chosen == {NoOverride} \cup (Provider \X Name)
Kept(o) == IF o = NoOverride THEN NoOverride
           ELSE LET b == Overridden(config, Base, o[1], o[2]) IN <<b.provider, b.model>>
Refused(o) == o # NoOverride /\ Overridden(config, Base, o[1], o[2]) = Failed
Override ==
    /\ phase = "up" /\ Base # Failed
    /\ \E e \in Chosen : ~Refused(e) /\ session' = [session EXCEPT !.execution = Kept(e)]
    /\ UNCHANGED <<env, file, phase, config, cache, client, updates, ran>>

(* resolve_run_models: without an override the model of a turn is the name  *)
(* of the model of its agent's binding; execute_agent_turn resolves it.     *)
Execution == IF session.execution = NoOverride THEN <<Base.provider, Base.model>> ELSE session.execution
Turn ==
    /\ phase = "up"
    /\ ran' = IF Base = Failed THEN Failed ELSE Overridden(config, Base, Execution[1], Execution[2])
    /\ UNCHANGED <<env, file, phase, config, cache, client, updates, session>>

Next ==
    \/ Start \/ Stop \/ Override \/ Turn
    \/ \E c \in Client : GetConfig(c) \/ Update(c) \/ Fill(c) \/ WriteFails(c) \/ Store(c)
Spec == Init /\ [][Next]_vars

-----------------------------------------------------------------------------
(* A configuration that was found valid can be started: what validate has   *)
(* checked is what the bindings of all agents need (validation.rs against   *)
(* build_agent_registry).                                                   *)
ValidBoots == phase # "crashed"

(* A running configuration that is given back as it was read loads as       *)
(* itself: nothing of an old form is left to migrate a second time, and     *)
(* nothing is lost or added on the way through config.get, config.update    *)
(* and the file.                                                            *)
StaysPut == phase = "up" =>
    config \in AppConfig /\ Loads(Written(config)) /\ Loaded(Written(config)) = config

(* No turn sends a provider the llm of another one: with an override or     *)
(* without, before a restart with a changed file or after.                  *)
OwnProvider == [][ran' # ran /\ ran'.llm # None =>
                  config.llms[ran'.llm].provider = ran'.provider]_vars

(* "bind provider/llm explicitly on each [[gateway.agents]] entry"          *)
(* (loaders.rs:62): a turn without an override runs the llm of its agent.   *)
TurnRunsBinding == [][Turn /\ session.execution = NoOverride /\ Base # Failed =>
                      /\ ran'.model = Base.model /\ ran'.thinks = Base.thinks
                      /\ ran'.provider = Base.provider]_vars

(* config_snapshot serves the current configuration (plan-4.md:128): when   *)
(* no update is on its way, it is the one the last update stored.           *)
SnapshotCurrent == (\A c \in Client : client[c].step = "idle") => config = cache
=============================================================================
