------------------------------- MODULE Skills -------------------------------
(* Skill packages: how folders on disk become packages                      *)
(* (nova-skill-loader, skill_adapter.rs), how packages become a registry    *)
(* (skill/registry.rs), which skill a user's input asks for and what of the *)
(* registry a system prompt shows (skill/registry/filter.rs).               *)
(*                                                                          *)
(* A name is a sequence of words: <<"skill", "a">> is "skill-a". An input   *)
(* is [slash, words]: whether it begins with "/", and its names, the first  *)
(* one empty if a space follows the slash.                                  *)
EXTENDS Integers, Sequences, FiniteSets, SequencesExt

NoName == <<>>

-----------------------------------------------------------------------------
(* Loading. A folder is [name, toml, md, dotted, preload]: toml and md are  *)
(* the fields of its files with k telling whether there is one ("none",     *)
(* "bad", "ok"), dotted whether the folder's name has an extension.         *)

Package(slug, display, aliases, preload) ==
    [slug |-> slug, display |-> display, aliases |-> aliases, preload |-> preload]

(* skill_dir_of, apply_preload_overrides *)
PreloadOf(folder, isFile) ==
    IF isFile \/ ~folder.dotted THEN folder.preload ELSE {}

(* parse_skill_toml_content *)
FromToml(folder) ==
    LET t == folder.toml
        slug == IF t.slug # NoName THEN t.slug
                ELSE IF t.id # NoName THEN t.id ELSE <<"skill.toml">>
    IN  Package(slug, IF t.display # NoName THEN t.display ELSE slug,
                t.aliases, PreloadOf(folder, TRUE))

(* parse_skill_content, to_skill_package *)
FromMarkdown(folder) ==
    Package(folder.name, IF folder.md.name # NoName THEN folder.md.name ELSE folder.name,
            <<>>, PreloadOf(folder, FALSE))

Fails(folder)   == folder.toml.k = "bad"
IsSkill(folder) == folder.toml.k # "none" \/ folder.md.k # "none"

(* load_single_skill *)
LoadSingle(folder) ==
    IF folder.toml.k # "none" THEN FromToml(folder) ELSE FromMarkdown(folder)

(* load_skills_from_dir_async: one folder that cannot be read fails them all *)
LoadDir(order) ==
    IF \E i \in 1..Len(order) : Fails(order[i]) THEN <<>>
    ELSE LET skills == SelectSeq(order, IsSkill)
         IN  [i \in 1..Len(skills) |-> LoadSingle(skills[i])]

(* load_skills: each further path fails alone *)
LoadSkills(order, extra) ==
    LET fine == SelectSeq(extra, LAMBDA f : IsSkill(f) /\ ~Fails(f))
    IN  LoadDir(order) \o [i \in 1..Len(fine) |-> LoadSingle(fine[i])]

(* extend_packages: a second package with a slug is an error *)
Duplicated(packages) ==
    \E i, j \in 1..Len(packages) : i < j /\ packages[i].slug = packages[j].slug

-----------------------------------------------------------------------------
(* Finding: the first package that fits, 0 if none does. *)

FirstIndex(packages, Fits(_)) ==
    LET hits == {i \in 1..Len(packages) : Fits(packages[i])}
    IN  IF hits = {} THEN 0 ELSE CHOOSE i \in hits : \A j \in hits : i <= j

BySlug(packages, n)  == FirstIndex(packages, LAMBDA p : p.slug = n)
ByAlias(packages, n) == FirstIndex(packages, LAMBDA p : \E i \in 1..Len(p.aliases) : p.aliases[i] = n)
ByName(packages, n)  == FirstIndex(packages, LAMBDA p : p.slug = n \/ p.display = n)

ExitSignals == {<<"exit", "skill">>, <<"reset", "skill">>, <<"skill", "off">>}

IsExitSignal(in) == in.slash /\ Len(in.words) = 1 /\ in.words[1] \in ExitSignals

(* The lookups match_skill_by_input makes, in their order: "/skill-<rest>"  *)
(* with the rest of the whole input, "/skill <name>", "/<name>".            *)
DashTries(packages, in) ==
    IF Len(in.words) = 1 /\ Len(in.words[1]) > 1 /\ in.words[1][1] = "skill"
    THEN <<BySlug(packages, Tail(in.words[1])), ByAlias(packages, Tail(in.words[1]))>>
    ELSE <<>>

SpaceTries(packages, in) ==
    IF in.words[1] = <<"skill">> /\ Len(in.words) > 1
    THEN LET n == in.words[2]
         IN  <<BySlug(packages, n), ByAlias(packages, n), ByName(packages, n)>>
    ELSE <<>>

(* A mutant: an alias of one skill before the slug of another.             *)
DirectTriesAliasFirst(packages, in) ==
    LET words == SelectSeq(in.words, LAMBDA n : n # NoName)
    IN  IF words = <<>> \/ "/" \in Range(words[1]) THEN <<>>
        ELSE <<ByAlias(packages, words[1]), BySlug(packages, words[1])>>

DirectTries(packages, in) ==
    LET words == SelectSeq(in.words, LAMBDA n : n # NoName)
    IN  IF words = <<>> \/ "/" \in Range(words[1]) THEN <<>>
        ELSE <<BySlug(packages, words[1]), ByAlias(packages, words[1])>>

MatchByInput(packages, in) ==
    IF ~in.slash THEN NoName
    ELSE LET hits == SelectSeq(DashTries(packages, in) \o SpaceTries(packages, in)
                               \o DirectTries(packages, in), LAMBDA i : i # 0)
         IN  IF hits = <<>> THEN NoName ELSE packages[hits[1]].slug

(* decide_active_skill *)
DecideActive(packages, in) ==
    IF IsExitSignal(in) THEN NoName ELSE MatchByInput(packages, in)

-----------------------------------------------------------------------------
(* What a prompt shows: the slug of a package listed, or told in full. *)

Listed(p) == [k |-> "listed", slug |-> p.slug]
Told(p)   == [k |-> "told", slug |-> p.slug]

Each(packages, Show(_)) == [i \in 1..Len(packages) |-> Show(packages[i])]

CatalogPrompt(packages) == Each(packages, Listed)
FullPrompt(packages)    == Each(packages, Told)

(* generate_contextual_prompt *)
ContextualPrompt(packages, active) ==
    LET i == BySlug(packages, active)
    IN  (IF active = NoName \/ i = 0 THEN <<>> ELSE <<Told(packages[i])>>)
        \o Each(SelectSeq(packages, LAMBDA p : p.slug # active), Listed)

SkillPrompt(packages, mode, active) ==
    CASE mode = "catalog"     -> CatalogPrompt(packages)
      [] mode = "active_full" -> ContextualPrompt(packages, active)
      [] mode = "full"        -> FullPrompt(packages)
=============================================================================
