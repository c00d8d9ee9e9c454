-------------------------- MODULE TurnPreparation --------------------------
(* What a turn sends to its model, from the files on disk to the messages   *)
(* of the request: start-up (bootstrap.rs), the creation of a session       *)
(* (application.rs, write.rs) and the preparation of a turn                 *)
(* (conversation_service.rs, agent/runtime.rs). The turn looks at the tools *)
(* twice: once to describe them in the prompt, once for the request.        *)
EXTENDS PromptAssembly, ModelRequest

CONSTANTS
    Worlds       \* what is on disk and configured, and the turn asked for

VARIABLES
    world,       \* the chosen member of Worlds
    stage,       \* "boot", "failed", "ready", "session", "described", "sent"
    packages,    \* SkillRegistry::packages
    template,    \* AgentDescriptor::system_prompt_template
    base,        \* AgentDescriptor::system_prompt_base
    override,    \* ControlState::system_prompt_base_override, Blank for None
    tools,       \* the session's tools: "loaded", "deferred" or "activated"
    turn,        \* the turn's active skill and prompt so far
    sent         \* the request: prompt, tools offered, messages

vars == <<world, stage, packages, template, base, override, tools, turn, sent>>

Nothing == [none |-> TRUE]

Init ==
    /\ world \in Worlds
    /\ stage = "boot"
    /\ packages = <<>> /\ template = Blank /\ base = Blank /\ override = Blank
    /\ tools = world.tools
    /\ turn = Nothing /\ sent = Nothing

StartVars == [active_agent |-> world.agent.id]

(* build_application: the order of the folders is the file system's choice; *)
(* two packages with one slug stop the start, and so does an agent's prompt *)
(* that cannot be read.                                                     *)
Boot ==
    /\ stage = "boot"
    /\ \E order \in SetToSeqs(world.folders) :
        LET loaded == LoadSkills(order, world.extra)
            prompt == AgentPrompt(world.agent)
        IN  IF Duplicated(loaded) \/ PromptFails(world.agent)
            THEN stage' = "failed" /\ UNCHANGED <<packages, template, base>>
            ELSE /\ stage' = "ready"
                 /\ packages' = loaded
                 /\ base' = prompt
                 /\ template' = FromMaterial(prompt, StartVars, loaded, "start", world.catalog)
    /\ UNCHANGED <<world, override, tools, turn, sent>>

(* create_session, create_for_agent: the prompt provider's answer, or the   *)
(* descriptor's template if there is no provider or it fails                *)
CreateSession ==
    /\ stage = "ready"
    /\ override' = IF world.provider = "answers" THEN <<Word("provided")>> ELSE template
    /\ stage' = "session"
    /\ UNCHANGED <<world, packages, template, base, tools, turn, sent>>

Offered == {t \in DOMAIN tools : tools[t] # "deferred"}

(* execute_agent_turn up to the system prompt, with the first prepare_turn *)
Describe ==
    /\ stage = "session"
    /\ LET active == DecideActive(packages, world.input)
           compact == world.compaction
       IN turn' =
          [active |-> active,
           prompt |-> BuildFromRequest(
             [base      |-> IF override # Blank THEN override ELSE base,
              agentId   |-> world.agent.id,
              vars      |-> [active_agent |-> world.agent.id],
              packages  |-> packages,
              mode      |-> IF compact THEN world.mode ELSE "full",
              active    |-> active,
              profile   |-> IF compact THEN world.profile ELSE "full",
              developer |-> DeveloperPrompt(world.files, world.hasDir, world.names, world.developer),
              project   |-> ProjectContext(world.files, world.hasDir, world.configured),
              env       |-> "now",
              tools     |-> Offered])]
    /\ stage' = "described"
    /\ UNCHANGED <<world, packages, template, base, override, tools, sent>>

(* Between the two looks: the host registers a tool, or the session is      *)
(* deleted and its activations are released.                                *)
(* A mutant: a registration replaces the tool that has the name.            *)
RegisterReplaces(t) ==
    /\ stage = "described"
    /\ \E how \in {"loaded", "deferred"} : tools' = (t :> how) @@ tools
    /\ UNCHANGED <<world, stage, packages, template, base, override, turn, sent>>

Register(t) ==
    /\ stage = "described"
    /\ \E how \in {"loaded", "deferred"} :
          tools' = IF t \in Offered \/ (t \in DOMAIN tools /\ how = "deferred")
                   THEN tools ELSE (t :> how) @@ tools
    /\ UNCHANGED <<world, stage, packages, template, base, override, turn, sent>>

Release ==
    /\ stage = "described"
    /\ tools' = [t \in DOMAIN tools |-> IF tools[t] = "activated" THEN "deferred" ELSE tools[t]]
    /\ UNCHANGED <<world, stage, packages, template, base, override, turn, sent>>

(* the second prepare_turn: what is deferred is appended, the history is    *)
(* trimmed if a skill is active; then the user's message                    *)
DeferredText ==
    LET names == DOMAIN tools \ Offered IN IF names = {} THEN Blank ELSE <<[deferred |-> names]>>

Send ==
    /\ stage = "described"
    /\ LET prompt == turn.prompt \o DeferredText
           history == IF turn.active = NoName THEN world.history
                      ELSE Trim(world.history, Len(prompt), world.trimmer)
           messages == Append(Inject(history, prompt), world.asked)
       IN sent' = [prompt |-> prompt, tools |-> Offered, kept |-> history,
                   openai |-> MessagesToOpenAi(messages),
                   anthropic |-> MessagesToAnthropic(messages)]
    /\ stage' = "sent"
    /\ UNCHANGED <<world, packages, template, base, override, tools, turn>>

Done == stage \in {"sent", "failed"} /\ UNCHANGED vars

Next == Boot \/ CreateSession \/ Describe \/ Release \/ Send \/ Done
        \/ \E t \in {"late"} : Register(t)

Spec == Init /\ [][Next]_vars

-----------------------------------------------------------------------------
Sent == stage = "sent"

Count(text, P(_)) == Cardinality({i \in 1..Len(text) : P(text[i])})

SkillsShown == [i \in 1..Len(packages) |->
    Count(sent.prompt, LAMBDA t : t = [skill |-> Told(packages[i])])]

(* what an input may be read as: "/skill-a b" as skill-a and as a *)
Readings(in) ==
    LET first == IF in.words[1] # NoName THEN in.words[1] ELSE in.words[2]
    IN  IF ~in.slash THEN {}
        ELSE {first}
             \cup (IF Len(in.words) = 1 /\ first[1] = "skill" THEN {Tail(first)} ELSE {})
             \cup (IF Len(in.words) > 1 /\ in.words[1] = <<"skill">> THEN {in.words[2]} ELSE {})

Fits(p, n) == n \in {p.slug, p.display} \cup Range(p.aliases)

(* A user who spells a skill's slug gets the instructions of that skill and *)
(* of no other, however the folders were read and whatever aliases and      *)
(* display names other skills have, if only one reading of the input fits   *)
(* any skill at all; nobody gets the instructions of a skill the input does *)
(* not fit (match_skill_by_input, generate_contextual_prompt).              *)
AskedIsTold ==
    Sent /\ world.compaction /\ world.mode = "active_full" =>
        LET reads == Readings(world.input)
            live  == {n \in reads : \E i \in 1..Len(packages) : Fits(packages[i], n)}
            told  == {i \in 1..Len(packages) : SkillsShown[i] > 0}
            WithSlug(n) == {i \in 1..Len(packages) : packages[i].slug = n}
        IN  IF IsExitSignal(world.input) THEN told = {}
            ELSE /\ \A n \in reads : live = {n} /\ WithSlug(n) # {} => told = WithSlug(n)
                 /\ \A i \in told : \E n \in reads : Fits(packages[i], n)

(* What the prompt says of the project's instructions: the lines whose      *)
(* nearest heading above is kept, all of them if none is                    *)
Meant(text) ==
    LET Above(i) == {j \in 1..i : IsHeading(text[j])}
        Stays(i) == /\ Above(i) # {}
                    /\ text[Max(Above(i))].heading \in KeptHeadings(world.profile)
        kept == SelectSeq([i \in 1..Len(text) |-> i], Stays)
    IN  IF kept = <<>> THEN text ELSE [i \in 1..Len(kept) |-> text[kept[i]]]

(* The prompt of a turn holds the lines of the project's instructions that  *)
(* the profile keeps, in their order and together: a line belongs to the    *)
(* nearest heading above it, in whichever of the configured files that      *)
(* heading was (filter_project_instruction_by_profile,                      *)
(* load_developer_project_prompt_async).                                    *)
InstructionsKept ==
    Sent /\ world.hasDir /\ world.developer /\ world.compaction /\ world.profile # "full" =>
        LET lines == Meant(DeveloperPrompt(world.files, TRUE, world.names, TRUE))
        IN  \E i \in 0..Len(sent.prompt) :
                /\ i + Len(lines) <= Len(sent.prompt)
                /\ SubSeq(sent.prompt, i + 1, i + Len(lines)) = lines

(* A trimmed history is the system message, one notice and the end of the   *)
(* conversation: never fewer than the protected messages, never one that    *)
(* would have fitted left out, and nothing from the middle (trim).          *)
TrimIsTail ==
    Sent /\ turn.active # NoName /\ sent.kept # world.history =>
        LET talk == SelectSeq(world.history, LAMBDA m : m.role # "system")
            kept == SelectSeq(sent.kept, LAMBDA m : m.role # "system" /\ m # Notice)
            dropped == Len(talk) - Len(kept)
            budget == Monus(Monus(world.trimmer.window, Len(sent.prompt)), world.trimmer.reserve)
            Single(ms) == FoldSeq(LAMBDA m, n : m.chars \div 3 + n, 0, ms)
            protected == Min({world.trimmer.minRecent, Len(talk)})
            room == Monus(budget, Tokens(SubSeq(talk, Len(talk) - protected + 1, Len(talk))))
        IN  /\ dropped > 0
            /\ kept = SubSeq(talk, dropped + 1, Len(talk))
            /\ Len(SelectSeq(sent.kept, LAMBDA m : m = Notice)) = 1
            /\ Len(kept) >= protected
            /\ Single(SubSeq(talk, dropped + 1, Len(talk) - protected)) <= room
            /\ Single(SubSeq(talk, dropped, Len(talk) - protected)) > room

(* In both wire formats the answers to the tool calls of a message come     *)
(* next and are complete, and a result without its call can only follow the *)
(* notice that earlier messages were cut (messages_to_openai,               *)
(* AnthropicClient::stream, trim).                                          *)
OpenAiAnswered(wire) ==
    LET Calls(i) == IF i > 0 /\ wire[i].role = "assistant" THEN wire[i].calls ELSE <<>>
        Results(i) == {j \in 1..Len(wire) : wire[j].role = "tool" /\ i < j
                         /\ \A n \in i + 1..j : wire[n].role = "tool"}
    IN  /\ \A i \in 1..Len(wire) : Calls(i) # <<>> =>
              {wire[j].calls[1] : j \in Results(i)} = Range(Calls(i))
        /\ \A j \in 1..Len(wire) : wire[j].role = "tool" =>
              LET i == Max({n \in 0..j : n = 0 \/ wire[n].role # "tool"})
              IN  wire[j].calls[1] \in Range(Calls(i)) \/ wire[i].texts = <<"trimmed">>

AnthropicAnswered(ms) ==
    LET Has(i, k) == IF i \in 1..Len(ms) THEN Range(Ids(ms[i].blocks, k)) ELSE {}
    IN  \A i \in 1..Len(ms) :
          /\ Has(i, "use") # {} => Has(i + 1, "result") = Has(i, "use")
          /\ Has(i, "result") \subseteq Has(i - 1, "use") \/ ms[i - 1] = Notice

AnswersFollow ==
    Sent => OpenAiAnswered(sent.openai) /\ AnthropicAnswered(sent.anthropic.messages)

(* The tools a prompt describes are tools of its request, although the      *)
(* registry is read a second time for the request: only the release of the  *)
(* session's activations may come between (execute_agent_turn).             *)
DescribedIsOffered ==
    Sent => \A i \in 1..Len(sent.prompt) :
        DOMAIN sent.prompt[i] = {"tools"} =>
            \A t \in sent.prompt[i].tools \ sent.tools :
                world.tools[t] = "activated" /\ tools[t] = "deferred"

(* agent_catalog.rs:19 says that system_prompt_base is what prepare_turn    *)
(* uses, the finished system_prompt_template being for the old path: so the *)
(* prompt of a turn has each of its sections once.                          *)
SectionsOnce ==
    Sent => \A i, j \in 1..Len(sent.prompt) :
        IsSection(sent.prompt[i]) /\ sent.prompt[i] = sent.prompt[j] => i = j
=============================================================================
