---------------------------- MODULE AgentRuntime ----------------------------
(***************************************************************************)
(* One turn of the agent: AgentRuntime::execute_turn_loop with the tool     *)
(* calls it executes and the loop guard that judges them.                   *)
(*                                                                         *)
(* An iteration sends the conversation to the provider, records the reply,  *)
(* judges its tool calls one after the other, executes those allowed        *)
(* concurrently, and records their results in the order of the calls.  The  *)
(* turn ends when a reply has no call, when the guard finds that it stalls, *)
(* when a stop is seen, at the budget of iterations, or with an error.      *)
(*                                                                         *)
(* Abstracted: a tool call is the tool, the part of its input its signature *)
(* keeps and the part it leaves out; a reply is the text it is known by and *)
(* its calls; what a tool answers, its errors and its timeout are one       *)
(* "executed" result; events and tracing are left out; the tools offered to *)
(* the model are external to this module.                                  *)
(***************************************************************************)
EXTENDS Naturals, Sequences, FiniteSets, TLC, SequencesExt

CONSTANTS Tool, Kept, Left, \* the parts of a tool call
          Text,          \* what the text of a reply is compared by
          Replies,       \* the replies a provider can send
          Nothing,       \* no call and no round yet
          Budget,        \* max_iterations
          MaxDuplicates, \* max_consecutive_duplicate_tool_calls
          MaxStalled,    \* max_stalled_iterations
          GuardEnabled,  \* loop_guard.enabled
          RejectMode     \* duplicate_read_mode is WarnThenReject

(* Kept is the path, offset and limit of a Read, the path of a Write or an  *)
(* Edit, the command of a Bash, and the whole input of any other tool.      *)
Call      == [tool : Tool, kept : Kept, left : Left]
Signature == Tool \X Kept
Reply     == [text : Text, calls : Seq(Call), truncated : BOOLEAN]

RuntimeAssumption ==
    /\ Replies \subseteq Reply
    /\ Nothing \notin Signature \cup (Text \X Seq(Signature))
    /\ Budget \in Nat \ {0} /\ MaxDuplicates \in Nat \ {0}
    /\ MaxStalled \in Nat \ {0}
    /\ {GuardEnabled, RejectMode} \subseteq BOOLEAN

VARIABLES
    pc,         \* "top", "request", "stream", "tools", "end"
    iteration,  \* iterations begun
    messages,   \* turn_messages: what the turn adds to the history
    context,    \* the part of all_messages the turn has added
    running,    \* calls of this iteration being executed
    results,    \* indexed_results of this iteration
    lastCall, duplicates,  \* the guard: the call judged last and its repetitions
    lastRound, stalled,    \* the guard: the round compared last and its repetitions
    outcome,    \* how the turn ended
    cancelled,  \* the cancellation token
    executed    \* history: the calls that were executed, as <<iteration, index>>

guard == <<lastCall, duplicates, lastRound, stalled>>
said  == <<messages, context>>
work  == <<running, results>>
vars  == <<pc, iteration, said, work, guard, outcome, cancelled, executed>>

(* The messages of a turn.  The results of a round name their calls.        *)
Assistant(i, r) == [kind |-> "assistant", round |-> i, text |-> r.text,
                    calls |-> r.calls, truncated |-> r.truncated]
Results(rs)     == [kind |-> "results", results |-> rs]
Continue        == [kind |-> "continue"]

(* A reply cut by the limit of tokens: it has no call, or its last call     *)
(* cannot be parsed.  The provider decides; any reply may be cut.           *)
Truncated(r) == r.truncated

(* build_tool_call_signature, and what two rounds are compared by. *)
SignatureOf(c) == <<c.tool, c.kept>>
Signatures(calls) == [k \in DOMAIN calls |-> SignatureOf(calls[k])]
Round(r) == <<r.text, Signatures(r.calls)>>

Init ==
    /\ pc = "top" /\ iteration = 0
    /\ messages = <<>> /\ context = <<>>
    /\ running = {} /\ results = <<>>
    /\ lastCall = Nothing /\ duplicates = 0
    /\ lastRound = Nothing /\ stalled = 0
    /\ outcome = "none"
    /\ cancelled = FALSE
    /\ executed = {}
-----------------------------------------------------------------------------
(***************************************************************************)
(* The loop guard.                                                         *)
(***************************************************************************)
(* Mutant: the count starts again with every reply. *)
CountsPerReply(calls) ==
    LET count[k \in 0 .. Len(calls)] ==
            IF k < 2 THEN 0
            ELSE IF SignatureOf(calls[k]) = SignatureOf(calls[k - 1]) THEN count[k - 1] + 1 ELSE 0
    IN  count

(* consecutive_duplicate_count after each call of a reply was judged.       *)
Counts(calls) ==
    LET before(k) == IF k = 1 THEN lastCall ELSE SignatureOf(calls[k - 1])
        count[k \in 0 .. Len(calls)] ==
            IF k = 0 THEN duplicates
            ELSE IF SignatureOf(calls[k]) = before(k) THEN count[k - 1] + 1 ELSE 0
    IN  count

(* evaluate_tool_call for every call of a reply, in their order.            *)
Rejected(calls) ==
    IF GuardEnabled /\ RejectMode
    THEN {k \in DOMAIN calls : Counts(calls)[k] >= MaxDuplicates}
    ELSE {}

Judge(calls) ==
    IF GuardEnabled
    THEN /\ lastCall' = SignatureOf(calls[Len(calls)])
         /\ duplicates' = Counts(calls)[Len(calls)]
    ELSE UNCHANGED <<lastCall, duplicates>>

(* detect_stalled_iteration, after the results of the round.                *)
Repeats(round) == IF round = lastRound THEN stalled + 1 ELSE 0

(* Mutant: one repetition more is tolerated. *)
StallsLate(round) == GuardEnabled /\ Repeats(round) > MaxStalled

Stalls(round) == GuardEnabled /\ Repeats(round) >= MaxStalled

CompareRound(round) ==
    IF GuardEnabled
    THEN lastRound' = round /\ stalled' = Repeats(round)
    ELSE UNCHANGED <<lastRound, stalled>>
-----------------------------------------------------------------------------
(***************************************************************************)
(* The loop.                                                               *)
(***************************************************************************)
End(how) == pc' = "end" /\ outcome' = how

(* The top of an iteration: the token, then the request. *)
Iterate ==
    /\ pc = "top" /\ iteration < Budget /\ ~cancelled
    /\ pc' = "request" /\ iteration' = iteration + 1
    /\ UNCHANGED <<said, work, guard, outcome, cancelled, executed>>

StopAtTop ==
    /\ pc = "top" /\ iteration < Budget /\ cancelled
    /\ End("stopped")
    /\ UNCHANGED <<iteration, said, work, guard, cancelled, executed>>

(* The range of the loop is used up: IterationLimitReached. *)
BudgetReached ==
    /\ pc = "top" /\ iteration = Budget
    /\ End("limit")
    /\ UNCHANGED <<iteration, said, work, guard, cancelled, executed>>

Stream ==
    /\ pc = "request"
    /\ pc' = "stream"
    /\ UNCHANGED <<iteration, said, work, guard, outcome, cancelled, executed>>

(* The provider refuses the request, or the stream breaks: an error is      *)
(* returned and the messages of the turn are dropped.                       *)
ProviderFails ==
    /\ pc \in {"request", "stream"}
    /\ End("failed")
    /\ messages' = <<>>
    /\ UNCHANGED <<iteration, context, work, guard, cancelled, executed>>

(* An event of the stream arrives after the token was cancelled. *)
StopInStream ==
    /\ pc = "stream" /\ cancelled
    /\ End("stopped")
    /\ UNCHANGED <<iteration, said, work, guard, cancelled, executed>>

Say(m) == messages' = Append(messages, m) /\ context' = Append(context, m)

(* The stream ends with a reply that was cut: the model is asked to go on.  *)
(* The question is part of the conversation and not of the turn's messages. *)
AskToContinue(r) ==
    /\ pc = "stream" /\ Truncated(r)
    /\ messages' = Append(messages, Assistant(iteration, r))
    /\ context' = context \o <<Assistant(iteration, r), Continue>>
    /\ pc' = "top"
    /\ UNCHANGED <<iteration, work, guard, outcome, cancelled, executed>>

(* The stream ends with a reply without calls. *)
Complete(r) ==
    /\ pc = "stream" /\ ~Truncated(r) /\ r.calls = <<>>
    /\ Say(Assistant(iteration, r))
    /\ End("completed")
    /\ UNCHANGED <<iteration, work, guard, cancelled, executed>>

(* The stream ends with calls.  The rejected ones have their results at     *)
(* once, the others are started together.                                  *)
Entry(k, allowed) == [call |-> <<iteration, k>>, ran |-> allowed]

StartTools(r) ==
    LET rejected == Rejected(r.calls)
        allowed  == DOMAIN r.calls \ rejected
    IN  /\ pc = "stream" /\ ~Truncated(r) /\ r.calls # <<>>
        /\ Say(Assistant(iteration, r))
        /\ Judge(r.calls)
        /\ running' = allowed
        /\ results' = FlattenSeq([k \in DOMAIN r.calls |->
                          IF k \in rejected THEN <<Entry(k, FALSE)>> ELSE <<>>])
        /\ executed' = executed \cup {<<iteration, k>> : k \in allowed}
        /\ pc' = "tools"
        /\ UNCHANGED <<iteration, lastRound, stalled, outcome, cancelled>>

(* Mutant: the result of a tool that ends after a stop is dropped. *)
ToolEndsUnrecorded(k) ==
    /\ pc = "tools" /\ k \in running
    /\ running' = running \ {k}
    /\ results' = IF cancelled THEN results ELSE Append(results, Entry(k, TRUE))
    /\ UNCHANGED <<pc, iteration, said, guard, outcome, cancelled, executed>>

(* Mutant: a stop aborts the tools and nobody reports them. *)
ToolEndsUnlessStopped(k) ==
    /\ pc = "tools" /\ k \in running /\ ~cancelled
    /\ running' = running \ {k}
    /\ results' = Append(results, Entry(k, TRUE))
    /\ UNCHANGED <<pc, iteration, said, guard, outcome, cancelled, executed>>

(* Any of the running tools ends, with a result, an error or its timeout. *)
ToolEnds(k) ==
    /\ pc = "tools" /\ k \in running
    /\ running' = running \ {k}
    /\ results' = Append(results, Entry(k, TRUE))
    /\ UNCHANGED <<pc, iteration, said, guard, outcome, cancelled, executed>>

(* Mutant: the order in which they ended. *)
AsTheyEnd(rs) == rs

(* indexed_results.sort_by_key: the order of the calls. *)
InOrder(rs) == CHOOSE s \in [DOMAIN rs -> ToSet(rs)] :
                  \A i, j \in DOMAIN rs : i < j => s[i].call[2] < s[j].call[2]

(* All have ended: the results are recorded, and unless a call was rejected *)
(* the round is compared with the one compared before.                      *)
Collect ==
    LET m        == Results(InOrder(results))
        round    == Round(messages[Len(messages)])
        compared == \A n \in DOMAIN results : results[n].ran
    IN  /\ pc = "tools" /\ running = {}
        /\ Say(m)
        /\ results' = <<>>
        /\ IF compared THEN CompareRound(round) ELSE UNCHANGED <<lastRound, stalled>>
        /\ IF compared /\ Stalls(round)
           THEN End("stalled")
           ELSE pc' = "top" /\ UNCHANGED outcome
        /\ UNCHANGED <<iteration, running, lastCall, duplicates, cancelled, executed>>

(* chat.stop or control_run cancels the token, at any time. *)
Cancel ==
    /\ ~cancelled /\ pc # "end"
    /\ cancelled' = TRUE
    /\ UNCHANGED <<pc, iteration, said, work, guard, outcome, executed>>

Answer(r) == AskToContinue(r) \/ Complete(r) \/ StartTools(r)

Step ==
    \/ Iterate \/ StopAtTop \/ BudgetReached \/ Stream \/ ProviderFails
    \/ StopInStream \/ Collect
    \/ \E r \in Replies : Answer(r)
    \/ \E k \in running : ToolEnds(k)

Next == Step \/ Cancel

Spec == Init /\ [][Next]_vars

(* The provider ends its stream in some way and every tool ends, at the     *)
(* latest by its timeout.                                                   *)
LiveSpec == Spec /\ WF_vars(Step)
-----------------------------------------------------------------------------
(***************************************************************************)
(* Properties.                                                             *)
(***************************************************************************)
CallId  == (1 .. Budget) \X (Nat \ {0})
Result  == [call : CallId, ran : BOOLEAN]
Message == [kind : {"assistant"}, round : 1 .. Budget, text : Text,
            calls : Seq(Call), truncated : BOOLEAN]
           \cup [kind : {"results"}, results : Seq(Result)]

(* The turn stays within its budget and its guard within its counters: a    *)
(* turn that is still running has been stalled less than MaxStalled rounds. *)
TypeOK ==
    /\ pc \in {"top", "request", "stream", "tools", "end"}
    /\ iteration \in 0 .. Budget
    /\ messages \in Seq(Message)
    /\ context \in Seq(Message \cup {Continue})
    /\ running \in SUBSET (Nat \ {0})
    /\ results \in Seq(Result)
    /\ lastCall \in Signature \cup {Nothing}
    /\ duplicates \in Nat
    /\ lastRound \in (Text \X Seq(Signature)) \cup {Nothing}
    /\ stalled \in 0 .. MaxStalled
    /\ stalled = MaxStalled => outcome = "stalled"
    /\ outcome \in {"none", "completed", "stalled", "limit", "stopped", "failed"}
    /\ (pc = "end") = (outcome # "none")
    /\ cancelled \in BOOLEAN
    /\ executed \in SUBSET CallId

(* A reply that asks for tools, and a reply that was cut.  The calls of a     *)
(* cut reply stay in both lists, but nobody executes or answers them.       *)
Calls(m) == m.kind = "assistant" /\ m.calls # <<>> /\ ~m.truncated
Cut(m)   == m.kind = "assistant" /\ m.truncated
Answers(m, a) == /\ m.kind = "results"
                 /\ [k \in DOMAIN m.results |-> m.results[k].call]
                      = [k \in DOMAIN a.calls |-> <<a.round, k>>]

(* What becomes of the calls of a reply.  Those of a complete reply are      *)
(* answered: the next message holds the results of exactly these calls in   *)
(* their order, whatever order the tools ended in.  Those of a reply that   *)
(* was cut are not: the next message is the question to go on, and none of  *)
(* them is ever executed.  The model is never asked to speak after itself.  *)
(* What the turn hands over is what the model was sent without these        *)
(* questions, so the next turns find the calls of a cut reply unanswered    *)
(* (README, section 6).                                                     *)
ConversationWhole ==
    /\ \A n \in DOMAIN context :
          /\ context[n].kind = "results" => n > 1 /\ Calls(context[n - 1])
          /\ Calls(context[n]) =>
                IF n = Len(context) THEN pc = "tools"
                ELSE Answers(context[n + 1], context[n])
          /\ Cut(context[n]) =>
                /\ n < Len(context) /\ context[n + 1] = Continue
                /\ \A c \in executed : c[1] # context[n].round
    /\ context # <<>> /\ pc \in {"top", "request", "stream"}
          => context[Len(context)].kind # "assistant"
    /\ outcome # "failed"
          => messages = FlattenSeq([n \in DOMAIN context |->
                           IF context[n] = Continue THEN <<>> ELSE <<context[n]>>])

(* The calls that were judged, in their order, with the decision. *)
Judged ==
    LET of(n) == IF messages[n].kind = "results"
                 THEN [k \in DOMAIN messages[n].results |->
                          [call |-> messages[n - 1].calls[k],
                           ran  |-> messages[n].results[k].ran]]
                 ELSE <<>>
    IN  FlattenSeq([n \in DOMAIN messages |-> of(n)])

(* With the guard on, a call is refused if and only if the MaxDuplicates    *)
(* calls before it have its signature, in this reply or in earlier ones:    *)
(* none is executed more often in a row, and no other is refused.           *)
DuplicatesRejected ==
    LET j == Judged
    IN  GuardEnabled /\ RejectMode =>
          \A n \in DOMAIN j :
             j[n].ran <=> \/ n <= MaxDuplicates
                          \/ \E k \in n - MaxDuplicates .. n :
                                SignatureOf(j[k].call) # SignatureOf(j[n].call)

(* The reply of iteration i and whether its calls were all executed. *)
Position(i) == CHOOSE n \in DOMAIN messages :
                  messages[n].kind = "assistant" /\ messages[n].round = i
FullRound(i) ==
    /\ Calls(messages[Position(i)])
    /\ Position(i) < Len(messages)
    /\ \A k \in DOMAIN messages[Position(i) + 1].results :
          messages[Position(i) + 1].results[k].ran
SameRounds(i, j) ==
    \A n \in i .. j : FullRound(n)
        /\ Round(messages[Position(n)]) = Round(messages[Position(i)])

(* MaxStalled + 1 iterations in a row that repeat the same text and the     *)
(* same executed calls are the last of the turn.                            *)
StallsEnd ==
    LET spoken == Cardinality({n \in DOMAIN messages : messages[n].kind = "assistant"})
    IN  GuardEnabled =>
          \A i \in 1 .. spoken - MaxStalled :
             SameRounds(i, i + MaxStalled)
                => outcome = "stalled" /\ spoken = i + MaxStalled

(* What a turn hands over: a result for every call that was executed and    *)
(* for no other, and, unless it was stopped, at least one message.  The     *)
(* service that appends the messages (TurnLifecycle, RunTurn) relies on it. *)
HandsOver ==
    pc = "end" /\ outcome # "failed" =>
      /\ executed = {r.call : r \in {s \in UNION {ToSet(m.results) :
                        m \in {x \in ToSet(messages) : x.kind = "results"}} : s.ran}}
      /\ outcome # "stopped" => messages # <<>>

(* Every turn ends. *)
TurnEnds == <>(pc = "end")

(* What a refused call is told, "You have repeated the exact same tool      *)
(* call": a call that is refused is the call that was made before it.       *)
RefusedRepeats ==
    LET j == Judged
    IN  \A n \in DOMAIN j : ~j[n].ran => n > 1 /\ j[n].call = j[n - 1].call
=============================================================================
