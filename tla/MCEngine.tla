------------------------------ MODULE MCEngine -------------------------------
(* The parts of a turn with a few plans, replies, tool calls and requests.   *)
EXTENDS Engine

CONSTANTS a1, a2, a3, a4, a5,  \* agents
          s1, s2, s3, s4,      \* stages
          path, none, old, new, t, u  \* values of the runtime's calls

(* Orchestration: a reviewed plan of a parallel and a serial stage, a        *)
(* diamond, a plan with stages that do not depend on each other and one      *)
(* without agents, a plan that has no order, plans that are refused for one  *)
(* reason each, and the plan of a prompt.                                    *)
Par(s, deps, as) == [id |-> s, parallel |-> TRUE, deps |-> deps, agents |-> as]
Ser(s, deps, as) == [id |-> s, parallel |-> FALSE, deps |-> deps, agents |-> as]
ReviewedPlan == [stages  |-> <<Ser(s2, {s1}, <<a4, a5>>), Par(s1, {}, <<a1, a2>>)>>,
             review  |-> TRUE, retries |-> 2, named |-> TRUE, shorthand |-> FALSE]
Diamond  == [stages  |-> <<Par(s4, {s2, s3}, <<a4>>), Par(s2, {s1}, <<a2, a5>>),
                           Ser(s3, {s1}, <<a3>>), Par(s1, {}, <<a1>>)>>,
             review  |-> FALSE, retries |-> 0, named |-> TRUE, shorthand |-> FALSE]
Loose    == [stages  |-> <<Ser(s1, {}, <<a1, a2>>), Par(s2, {}, <<a3, a4, a5>>),
                           Par(s3, {s1, s2}, <<>>)>>,
             review  |-> FALSE, retries |-> 0, named |-> TRUE, shorthand |-> FALSE]
Circular == [stages  |-> <<Par(s1, {}, <<a1>>), Par(s2, {s1, s3}, <<a2>>),
                           Par(s3, {s2}, <<a3>>)>>,
             review  |-> TRUE, retries |-> 1, named |-> TRUE, shorthand |-> FALSE]
Of(stages) == [stages |-> stages, review |-> FALSE, retries |-> 0, named |-> TRUE, shorthand |-> FALSE]
Refusals == {[Of(<<Par(s1, {}, <<a1>>)>>) EXCEPT !.named = FALSE],
             Of(<<Par(s1, {}, <<a1>>), Par(s1, {}, <<a2>>)>>),
             Of(<<Par(s1, {s2}, <<a1>>)>>),
             Of(<<Par(s1, {}, <<a1>>), Ser(s2, {s1}, <<a1>>)>>)}
Submitted == {ReviewedPlan, Diamond, Loose, Circular, Shorthand(s1, a1)} \cup Refusals

(* AgentRuntime: a Read and two Edits of one file, two texts, replies with   *)
(* none, one or two calls, most of which may also be cut.                    *)
ReadFile == [tool |-> "Read", kept |-> path, left |-> none]
Edit     == [tool |-> "Edit", kept |-> path, left |-> old]
ReEdit   == [tool |-> "Edit", kept |-> path, left |-> new]
Said == [text : {t}, truncated : BOOLEAN,
         calls : {<<>>, <<ReadFile>>, <<Edit>>, <<ReadFile, Edit>>, <<Edit, ReEdit>>}]
        \cup [text : {u}, truncated : {FALSE}, calls : {<<ReadFile, Edit>>}]
==============================================================================
