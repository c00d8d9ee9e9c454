------------------------- MODULE MCTurnPreparation -------------------------
EXTENDS TurnPreparation, TLC
(* Worlds that differ from one plain world in one part: the skills and the  *)
(* input, the project's files, the history, the tools, the agent's prompt.  *)
N(w) == <<w>>
Toml(slug, display, aliases) == [k |-> "ok", slug |-> slug, id |-> NoName, display |-> display, aliases |-> aliases]
Md(n) == [k |-> "ok", name |-> n]
None == [k |-> "none"]
Folder(n, t, m) == [name |-> n, toml |-> t, md |-> m, dotted |-> FALSE, preload |-> {}]
A == Folder(N("a"), Toml(N("a"), NoName, <<N("x")>>), None)
B == Folder(N("b"), None, Md(N("a")))
C == Folder(N("c"), Toml(NoName, N("c"), <<N("a"), N("b")>>), Md(NoName))
SkillX == Folder(<<"skill", "x">>, Toml(<<"skill", "x">>, N("b"), <<>>), None)
Broken == Folder(N("d"), [k |-> "bad"], Md(N("d")))
Twin == Folder(N("twin"), Toml(N("a"), NoName, <<>>), None)
Empty == Folder(N("e"), None, None)

In(words) == [slash |-> TRUE, words |-> words]
Inputs == {[slash |-> FALSE, words |-> <<N("a")>>]} \cup
    {In(ws) : ws \in {<<N("a")>>, <<N("b"), N("a")>>, <<N("x")>>, <<NoName, N("a")>>,
      <<N("skill"), N("a")>>, <<N("skill"), N("b")>>, <<N("skill"), N("c"), N("a")>>,
      <<(<<"skill", "x">>)>>, <<(<<"skill", "a">>)>>, <<(<<"skill", "a">>), N("b")>>,
      <<(<<"usr", "/", "a">>)>>, <<(<<"exit", "skill">>)>>, <<N("unknown")>>}}

H(h) == [heading |-> h]
W(w) == Word(w)
Use(id) == [k |-> "use", id |-> id]
Result(id, image) == [k |-> "result", id |-> id, image |-> image]
Think == [k |-> "think", id |-> "t"]
Sys == Message("system", <<Text("old")>>, 9)
Ask(c) == Message("user", <<Text("ask")>>, c)
Answer(c) == Message("assistant", <<Think, Text("answer")>>, c)
CallTwo(c) == Message("assistant", <<Text("calls"), Use("c1"), Use("c2")>>, c)
Results(c) == Message("user", <<Result("c1", TRUE), Result("c2", FALSE)>>, c)
CallOne(c) == Message("assistant", <<Use("c3")>>, c)
ResultOne(c) == Message("user", <<Result("c3", TRUE)>>, c)
Talk(c, d) == <<Sys, Ask(c), CallTwo(d), Results(c), Answer(2), Ask(d), CallOne(2), ResultOne(c), Answer(d)>>

Plain == [
    folders |-> {A}, extra |-> <<>>, input |-> In(<<N("a"), N("b")>>), mode |-> "active_full",
    compaction |-> TRUE, profile |-> "code", provider |-> "answers", catalog |-> <<W("agents")>>,
    agent |-> [id |-> "main", file |-> "p", inline |-> "none", legacy |-> "none", default |-> "missing",
               text |-> <<W("you"), [var |-> "active_agent"], [var |-> "unknown"]>>],
    hasDir |-> TRUE, developer |-> TRUE, names |-> <<"one", "two">>, configured |-> "none",
    files |-> ("one" :> <<H("stack"), W("rust")>>),
    history |-> <<Sys, Ask(3), Answer(3)>>, asked |-> Message("user", <<Text("go"), [k |-> "image", id |-> "i"]>>, 3),
    trimmer |-> [window |-> 40, reserve |-> 5, minRecent |-> 2],
    tools |-> ("Read" :> "loaded" @@ "Task" :> "activated" @@ "Web" :> "deferred")]

SkillWorlds == {[Plain EXCEPT !.folders = f, !.extra = e, !.input = i] :
    f \in {{A, B, C}, {A, SkillX}, {B, C, Empty}, {SkillX, C}, {A, Broken}},
    e \in {<<>>, <<Broken, Folder(N("f"), None, Md(NoName))>>}, i \in Inputs}
  \cup {[Plain EXCEPT !.folders = {A, Twin}], [Plain EXCEPT !.extra = <<A>>]}
  \cup {[Plain EXCEPT !.mode = m, !.compaction = c] : m \in {"catalog", "full"}, c \in BOOLEAN}

Texts == {Blank, <<W("intro"), H("behaviour"), W("b")>>, <<H("other"), W("o")>>,
          <<H("stack"), W("s"), H("other"), W("o"), H("quality"), W("q")>>}
FileWorlds == {[Plain EXCEPT !.files = ("one" :> t @@ "two" :> u @@ "NOVA.md" :> <<W("nova")>>), !.profile = p] :
                  t, u \in Texts, p \in {"auto", "analysis", "code", "design", "review", "full"}}
  \cup {[Plain EXCEPT !.files = ("PROJECT.md" :> t @@ "NOVA.md" :> <<W("nova")>>), !.configured = c, !.hasDir = d] :
                  t \in {Blank, <<W("project")>>}, c \in {"none", "NOVA.md", "gone"}, d \in BOOLEAN}

HistoryWorlds == {[Plain EXCEPT !.history = Talk(c, d), !.input = i,
                                !.trimmer = [window |-> w, reserve |-> 2, minRecent |-> r]] :
    c \in {2, 9}, d \in {4, 15}, w \in {3, 18, 21, 24, 27, 31, 60}, r \in {0, 2, 3, 20},
    i \in {In(<<N("a")>>), In(<<N("unknown")>>)}}

ToolWorlds == {[Plain EXCEPT !.tools = ("late" :> how @@ "Read" :> "loaded")] : how \in {"loaded", "deferred", "activated"}}

AgentWorlds == {[Plain EXCEPT !.agent = [id |-> "main", file |-> f, inline |-> n, legacy |-> l,
                                         default |-> "missing", text |-> <<W("you")>>]] :
    f \in {"none", "missing", "p"}, n \in {"none", "given"}, l \in {"none", "given"}}

MCWorlds == {Plain} \cup SkillWorlds \cup FileWorlds \cup HistoryWorlds \cup ToolWorlds \cup AgentWorlds

(* Worlds whose host registers no prompt provider, or one that fails *)
NoProvider == {[Plain EXCEPT !.provider = p] : p \in {"none", "fails"}}
=============================================================================
