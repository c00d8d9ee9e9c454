------------------------------- MODULE MCHost --------------------------------
(* An instance of Hosting: the files and answers of MCInputs, the databases  *)
(* of MCMigrations and the worlds of MCTurnPreparation; two providers, names *)
(* and clients; two starts, of which one is repeated; two delegations with   *)
(* three agents; three turns and pages of one.                               *)
EXTENDS Hosting, TLC

CONSTANTS nova, coder, broken, stranger, nobody,  \* agents
          f1, skill, missing, t1, t2, t3,         \* a file, skills and tools
          d1, d2, k1, k2, r1, r2, r3              \* delegations, clients, turns

Given == INSTANCE MCInputs WITH
    Name <- {"m", "n"}, Provider <- {"p", "q"}, None <- "none"
Disks == INSTANCE MCMigrations WITH
    Databases <- {}, columns <- mColumns, rows <- mRows, phase <- mPhase, at <- mAt,
    adding <- mAdding, had <- mHad, starts <- mStarts, stored <- mStored
Words == INSTANCE MCTurnPreparation WITH
    Worlds <- {}, world <- wWorld, stage <- wStage, packages <- wPackages,
    template <- wTemplate, base <- wBase, override <- wOverride, tools <- wTools,
    turn <- wTurn, sent <- wSent
HostWorlds    == Words!MCWorlds
HostScripts   == Given!MCScripts
HostRaws      == Given!MCRaws
HostDatabases == Disks!MCDatabases
HostClients   == {k1, k2}
HostDelegated == {d1, d2}
HostAgents    == {nova, coder, broken}
HostRuns      == {r1, r2, r3}
(* One agent has a prompt file, one an inline prompt beside it and one a      *)
(* default file; the tools of a skill come from tools.d, the host and nowhere. *)
HostPrompts ==
    nova   :> [file |-> f1, inline |-> nobody, legacy |-> nobody, default |-> missing]
 @@ coder  :> [file |-> nobody, inline |-> nobody, legacy |-> "legacy", default |-> f1]
 @@ broken :> [file |-> f1, inline |-> "inline", legacy |-> nobody, default |-> missing]
HostPreload == skill :> {t1, t2, t3}

HostFiles == {f1}
HostSkills == {skill}
HostExternal == {t1}
HostSeeds == {t2}

(* Clients and turns are interchangeable, and so are delegations, whose       *)
(* states are too few to be worth it.                                        *)
HostAlike == Permutations(HostClients) \cup Permutations(HostRuns)
==============================================================================
