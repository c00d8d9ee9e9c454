------------------------------ MODULE MCInputs -------------------------------
(* What the parts around a turn are given: the files a program may find and  *)
(* the answers of providers.                                                *)
EXTENDS Integers, Sequences

CONSTANTS Name, Provider, None

(* Files that differ in their llms and the bindings of an agent, and files   *)
(* that differ in one of the other parts.                                   *)
Llms == UNION {[d -> [provider : Provider, model : Name, thinks : {"no"}]] : d \in SUBSET Name}
Agent(id, p, l) == [id |-> id, provider |-> p, llm |-> l, prompt |-> None, template |-> None, model |-> None]
Raw(providers, llms, agents) ==
    [providers |-> providers, llms |-> llms, agents |-> agents, trimmer |-> [section |-> FALSE],
     defaults |-> FALSE, knobs |-> TRUE, tavily |-> FALSE, key |-> FALSE, elsewhere |-> FALSE]
Bound(ps, ls) == Raw(ps, ls, <<Agent("a", "p", "m")>>)
Bindings == {Bound(Provider, ls) : ls \in Llms}
            \cup {Bound({"p"}, ls) : ls \in {l \in Llms : DOMAIN l \subseteq {"m"}}}
Plain == Raw(Provider, [l \in Name |-> [provider |-> "p", model |-> "n", thinks |-> "both"]], <<Agent("a", "p", "m")>>)
Others ==
    {Plain} \cup {[Plain EXCEPT !.agents[1].prompt = x, !.agents[1].template = y] :
                     x \in {None, "inline", "both"}, y \in {None, "file"}}
    \cup {[Plain EXCEPT !.agents[1].model = "m"]}
    \cup {[Plain EXCEPT !.agents = @ \o <<Agent(i, "p", "n")>>] : i \in {"a", "b"}}
    \cup {[Plain EXCEPT !.trimmer = [section |-> TRUE, enabled |-> h = 0, window |-> 2, reserve |-> 1, history |-> h]] :
             h \in {0, 3}}
    \cup {[Plain EXCEPT !.tavily = t, !.key = y] : t, y \in BOOLEAN}
    \cup {[Plain EXCEPT !.defaults = TRUE], [Plain EXCEPT !.knobs = FALSE], [Plain EXCEPT !.elsewhere = TRUE]}
MCRaws == Bindings \cup Others

(* Answers as a provider sends them, of both formats and line endings: in   *)
(* parts, with parallel calls, cut short, broken, and with an error.         *)
Chunk(text, calls, finish, usage) ==
    [k |-> "data", text |-> text, calls |-> calls, finish |-> finish, usage |-> usage]
Call(index, id, args) == [index |-> index, id |-> id, args |-> args]
Comment == [k |-> "comment"]
DoneFrame == [k |-> "done"]
Block(i, type, id) == [k |-> "block_start", index |-> i, type |-> type, id |-> id]
Delta(i, of, t) == [k |-> "block_delta", index |-> i, of |-> of, t |-> t]
Stop(i) == [k |-> "block_stop", index |-> i]
Bare(k) == [k |-> k]

MCScripts == {
  [kind |-> "openai", eol |-> "lf", frames |-> <<
     Chunk("a", <<>>, "none", "none"), Comment, Chunk("b", <<>>, "none", "none"),
     Chunk("", <<>>, "stop", "none"), Chunk("", <<>>, "none", "u1"), DoneFrame>>],
  [kind |-> "openai", eol |-> "crlf", frames |-> <<
     Chunk("a", <<Call(0, "c1", "x")>>, "none", "none"), Chunk("", <<Call(0, "none", "y")>>, "none", "none"),
     Chunk("", <<Call(1, "c2", ""), Call(2, "c3", "z")>>, "none", "none"),
     Chunk("", <<Call(2, "none", "w")>>, "tool_calls", "none"), Chunk("", <<>>, "none", "u1"), DoneFrame>>],
  [kind |-> "openai", eol |-> "lf", frames |-> <<
     Chunk("", <<Call(0, "c1", "x")>>, "none", "none"), Chunk("", <<>>, "length", "none"), DoneFrame>>],
  [kind |-> "openai", eol |-> "lf", frames |-> <<
     Chunk("a", <<>>, "none", "none"), Bare("bad"), DoneFrame>>],
  [kind |-> "anthropic", eol |-> "lf", frames |-> <<
     Bare("message_start"), Block(0, "thinking", "none"), Delta(0, "thinking", "h"), Delta(0, "signature", "s"), Stop(0),
     Block(1, "text", "none"), Delta(1, "text", "a"), Bare("ping"), Delta(1, "text", "b"), Stop(1),
     Block(2, "tool_use", "c1"), Delta(2, "partial_json", "x"), Delta(2, "partial_json", "y"), Stop(2),
     Block(3, "tool_use", "c2"), Stop(3),
     Block(4, "redacted", "none"), Delta(4, "data", "d"), Stop(4),
     [k |-> "message_delta", finish |-> "tool_use", t |-> "c"], [k |-> "message_stop", usage |-> "u1"]>>],
  [kind |-> "anthropic", eol |-> "crlf", frames |-> <<
     Bare("message_start"), Block(0, "text", "none"), Delta(0, "text", "a"), Bare("error")>>] }
==============================================================================
