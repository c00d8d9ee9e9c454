--------------------------- MODULE PromptAssembly ---------------------------
(* How a system prompt is put together: SystemPromptBuilder                 *)
(* (prompt/builder.rs), template rendering (templates.rs), the project's    *)
(* files (context.rs) and the agent's own prompt (prompt_loader.rs).        *)
(*                                                                          *)
(* A text is a sequence of tokens; a placeholder is [var |-> v], a section  *)
(* heading of the built prompt is [section |-> n], a "## " heading of a     *)
(* project file is [heading |-> h].                                         *)
EXTENDS Skills

Blank == <<>>

IsVar(t)     == DOMAIN t = {"var"}
IsHeading(t) == DOMAIN t = {"heading"}
IsSection(t) == DOMAIN t = {"section"}
Word(w)      == [word |-> w]

-----------------------------------------------------------------------------
(* TemplateContext::render: a placeholder without a value disappears. A     *)
(* prompt is rendered only if there are variables at all.                   *)

Render(text, vars) ==
    IF DOMAIN vars = {} THEN text
    ELSE FlattenSeq([i \in 1..Len(text) |->
            IF ~IsVar(text[i]) THEN <<text[i]>>
            ELSE IF text[i].var \in DOMAIN vars THEN <<Word(vars[text[i].var])>> ELSE <<>>])

(* filter_project_instruction_by_profile *)
KeptHeadings(profile) ==
    CASE profile = "analysis" -> {"behaviour", "structure"}
      [] profile \in {"code", "auto"} -> {"behaviour", "stack", "structure", "quality", "repair"}
      [] profile = "design" -> {"behaviour", "plans"}
      [] profile = "review" -> {"behaviour", "quality"}

(* one pass over the lines: [heading, lines, out], flushed at each heading  *)
Flush(s, profile) ==
    IF s.heading \in KeptHeadings(profile) THEN s.out \o s.lines ELSE s.out

(* A mutant: the last part is never flushed.                               *)
FilterByProfileOpen(text, profile) ==
    LET Line(s, t) ==
          IF IsHeading(t)
          THEN [heading |-> t.heading, lines |-> <<t>>, out |-> Flush(s, profile)]
          ELSE [s EXCEPT !.lines = Append(@, t)]
        end == FoldLeft(Line, [heading |-> "none", lines |-> <<>>, out |-> <<>>], text)
    IN  IF profile = "full" \/ end.out = <<>> THEN text ELSE end.out

FilterByProfile(text, profile) ==
    LET Line(s, t) ==
          IF IsHeading(t)
          THEN [heading |-> t.heading, lines |-> <<t>>, out |-> Flush(s, profile)]
          ELSE [s EXCEPT !.lines = Append(@, t)]
        end == FoldLeft(Line, [heading |-> "none", lines |-> <<>>, out |-> <<>>], text)
        out == Flush(end, profile)
    IN  IF profile = "full" \/ out = <<>> THEN text ELSE out

-----------------------------------------------------------------------------
(* Files of a project: a function from names to "absent" or a text. *)

Readable(files, f) == f \in DOMAIN files /\ files[f] # Blank

(* load_project_context_with_config_async: the configured file and no       *)
(* other, or the first of PROJECT.md and NOVA.md that has a text            *)
ProjectContext(files, hasDir, configured) ==
    LET names == IF configured # "none" THEN <<configured>>
                 ELSE IF hasDir THEN <<"PROJECT.md", "NOVA.md">> ELSE <<>>
        found == SelectSeq(names, LAMBDA f : Readable(files, f))
    IN  IF found = <<>> THEN Blank ELSE files[found[1]]

(* load_developer_project_prompt_async: every file that has a text, in the  *)
(* configured order                                                         *)
DeveloperPrompt(files, hasDir, names, enabled) ==
    IF ~hasDir \/ ~enabled THEN Blank
    ELSE FlattenSeq([i \in 1..Len(names) |->
            IF Readable(files, names[i]) THEN <<Word(names[i])>> \o files[names[i]] ELSE <<>>])

(* load_agent_prompt: two prompts, or a file that cannot be read, are an    *)
(* error; without any the agent has none                                    *)
PromptFails(spec) == spec.file # "none" /\ (spec.inline # "none" \/ spec.file = "missing")

AgentPrompt(spec) ==
    IF {spec.file, spec.inline, spec.legacy} = {"none"} /\ spec.default = "missing"
    THEN Blank ELSE spec.text

-----------------------------------------------------------------------------
(* The builder: sections in the order they are added, empty ones left out.  *)

Section(name, text) == IF text = Blank THEN <<>> ELSE <<[section |-> name]>> \o text

Guards == <<Word("guards")>>

SkillText(packages, mode, active) ==
    LET items == SkillPrompt(packages, mode, active)
    IN  [i \in 1..Len(items) |-> [skill |-> items[i]]]

EnvironmentText(env) == <<[env |-> env]>>

ToolText(names) == IF names = {} THEN Blank ELSE <<[tools |-> names]>>

(* from_material with the empty turn material: the template an agent's      *)
(* descriptor keeps (descriptor_factory.rs)                                 *)
FromMaterial(prompt, vars, packages, env, catalog) ==
    Section("base", Render(prompt, vars)) \o Section("guards", Guards)
    \o Section("skills", SkillText(packages, "catalog", NoName))
    \o Section("environment", EnvironmentText(env))
    \o Section("agents", catalog)

(* build_from_request: the prompt of a turn *)
BaseOf(base, agentId) == IF base # Blank THEN base ELSE <<Word(agentId)>>

BuildFromRequest(r) ==
    Section("base", Render(BaseOf(r.base, r.agentId), r.vars)) \o Section("guards", Guards)
    \o Section("skills", SkillText(r.packages, r.mode, r.active))
    \o Section("developer", FilterByProfile(r.developer, r.profile))
    \o Section("project", r.project)
    \o Section("environment", EnvironmentText(r.env))
    \o Section("tools", ToolText(r.tools))
=============================================================================
