---------------------------- MODULE ModelRequest ----------------------------
(* From a session's history to the messages of a model request: trimming    *)
(* (prompt/trimmer.rs), the system message (agent/runtime.rs) and the two   *)
(* wire formats (openai_compat/conv.rs, anthropic.rs).                      *)
(*                                                                          *)
(* A message is [role, blocks, chars]; a block is [k, id], k one of "text", *)
(* "think", "use", "result", "image"; a result also says whether it brings  *)
(* an image. chars is the text length the budget is estimated from.         *)
EXTENDS Integers, Sequences, SequencesExt, FiniteSetsExt

Text(t) == [k |-> "text", id |-> t]
Message(role, blocks, chars) == [role |-> role, blocks |-> blocks, chars |-> chars]

-----------------------------------------------------------------------------
(* HistoryTrimmer. *)

Tokens(ms) == FoldSeq(LAMBDA m, n : m.chars + n, 0, ms) \div 3

Monus(a, b) == IF a > b THEN a - b ELSE 0

Notice == Message("user", <<Text("trimmed")>>, 0)

(* the loop from the newest trimmable message back, to the first that does  *)
(* not fit: how many are kept                                               *)
(* A mutant: a message that does not fit is passed over, older ones are not *)
KeptSkipping(trimmable, budget) ==
    LET left[i \in 0..Len(trimmable)] ==
          IF i = Len(trimmable) THEN budget
          ELSE LET t == Tokens(<<trimmable[i + 1]>>)
               IN  IF t <= left[i + 1] THEN left[i + 1] - t ELSE left[i + 1]
    IN  Cardinality({i \in 0..Len(trimmable) - 1 :
                        Tokens(<<trimmable[i + 1]>>) <= left[i + 1]})

Kept(trimmable, budget) ==
    LET step[i \in 0..Len(trimmable)] ==      \* budget left before message i, -1 after the break
          IF i = Len(trimmable) THEN budget
          ELSE IF step[i + 1] = -1 THEN -1
          ELSE LET t == Tokens(<<trimmable[i + 1]>>)
               IN  IF t <= step[i + 1] THEN step[i + 1] - t ELSE -1
    IN  Cardinality({i \in 0..Len(trimmable) : step[i] # -1}) - 1

Trim(history, systemTokens, cfg) ==
    LET budget == Monus(Monus(cfg.window, systemTokens), cfg.reserve)
        system == SelectSeq(history, LAMBDA m : m.role = "system")
        talk   == SelectSeq(history, LAMBDA m : m.role # "system")
        protectedCount == Min({cfg.minRecent, Len(talk)})
        trimmable == SubSeq(talk, 1, Len(talk) - protectedCount)
        protected == SubSeq(talk, Len(talk) - protectedCount + 1, Len(talk))
        n == Kept(trimmable, Monus(budget, Tokens(protected)))
    IN  IF Tokens(talk) <= budget THEN history
        ELSE system \o (IF n = Len(trimmable) THEN <<>> ELSE <<Notice>>)
             \o SubSeq(trimmable, Len(trimmable) - n + 1, Len(trimmable)) \o protected

-----------------------------------------------------------------------------
(* run_turn_with_context: the current prompt becomes the first message *)

Inject(history, prompt) ==
    LET system == Message("system", <<[k |-> "text", id |-> prompt]>>, 0)
    IN  IF history # <<>> /\ history[1].role = "system"
        THEN <<system>> \o Tail(history)
        ELSE <<system>> \o history

-----------------------------------------------------------------------------
(* messages_to_openai. *)

Ids(blocks, kind) ==
    LET bs == SelectSeq(blocks, LAMBDA b : b.k = kind)
    IN  [i \in 1..Len(bs) |-> bs[i].id]

Entry(role, texts, images, calls) ==
    [role |-> role, texts |-> texts, images |-> images, calls |-> calls]

Unless(cond, entry) == IF cond THEN <<>> ELSE <<entry>>

(* A mutant: the images of the results before the results.                 *)
OpenAiUserImagesFirst(m) ==
    LET results == SelectSeq(m.blocks, LAMBDA b : b.k = "result")
        images  == SelectSeq(results, LAMBDA b : b.image)
    IN  Unless(images = <<>>, Entry("user", <<>>, [i \in 1..Len(images) |-> images[i].id], <<>>))
        \o [i \in 1..Len(results) |-> Entry("tool", <<>>, <<>>, <<results[i].id>>)]

OpenAiUser(m) ==
    LET results == SelectSeq(m.blocks, LAMBDA b : b.k = "result")
        images  == SelectSeq(results, LAMBDA b : b.image)
        texts   == Ids(m.blocks, "text")
        inline  == Ids(m.blocks, "image")
    IN  [i \in 1..Len(results) |-> Entry("tool", <<>>, <<>>, <<results[i].id>>)]
        \o Unless(images = <<>>, Entry("user", <<>>, [i \in 1..Len(images) |-> images[i].id], <<>>))
        \o Unless(texts = <<>> /\ inline = <<>>, Entry("user", texts, inline, <<>>))

OpenAiAssistant(m) ==
    LET texts == Ids(m.blocks, "text")
        calls == Ids(m.blocks, "use")
    IN  Unless(texts = <<>> /\ calls = <<>>, Entry("assistant", texts, <<>>, calls))

MessagesToOpenAi(ms) ==
    FlattenSeq([i \in 1..Len(ms) |->
        CASE ms[i].role = "system"    -> Unless(Ids(ms[i].blocks, "text") = <<>>,
                                                Entry("system", Ids(ms[i].blocks, "text"), <<>>, <<>>))
          [] ms[i].role = "user"      -> OpenAiUser(ms[i])
          [] ms[i].role = "assistant" -> OpenAiAssistant(ms[i])])

(* AnthropicClient::stream: system texts apart, every other message as it is *)
MessagesToAnthropic(ms) ==
    [system   |-> FlattenSeq([i \in 1..Len(ms) |->
                     IF ms[i].role = "system" THEN Ids(ms[i].blocks, "text") ELSE <<>>]),
     messages |-> SelectSeq(ms, LAMBDA m : m.role # "system")]
=============================================================================
