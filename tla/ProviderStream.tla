--------------------------- MODULE ProviderStream ---------------------------
(* One streamed answer of a language model, from the bytes of the HTTP      *)
(* response to the message the turn loop builds from them: the SSE parser   *)
(* (provider/sse.rs), the two receivers (provider/openai_compat/mod.rs and  *)
(* provider/anthropic.rs) and the loop that drains them                     *)
(* (agent/runtime/tool_exec.rs).                                            *)
(*                                                                          *)
(* Frames are abstract: what a frame says is a record; on the wire it is    *)
(* one byte standing for its data lines, then the blank line that ends it.  *)
(* A server may cut the bytes into chunks anywhere, and may close or break  *)
(* the connection after any byte.                                           *)
EXTENDS Integers, Sequences, SequencesExt

CONSTANTS
    Scripts      \* the answers: [kind, eol, frames]; kind is the protocol,
                 \* eol the line ends the server uses

Text(t)       == [k |-> "text", t |-> t]
Thought(t)    == [k |-> "think", t |-> t]
Start(id)     == [k |-> "start", id |-> id]
Args(t)       == [k |-> "args", t |-> t]
End           == [k |-> "end"]
Complete(u,r) == [k |-> "complete", usage |-> u, stop |-> r]

VARIABLES
    script,      \* the answer of this run
    sent,        \* bytes that have arrived so far
    closed,      \* the server has closed the response
    buffer,      \* SseParser::buffer
    pending,     \* pending_tool_calls: how many entries are Some
    block,       \* current_block_type of the Anthropic receiver
    stop,        \* pending_stop_reason
    queue,       \* event_queue
    heard,       \* what the loop gathered: current_text, current_thinking,
                 \* tool_calls, iter_usage, last_stop_reason
    status       \* "open", "done" (next_event returned None) or "failed"

vars == <<script, sent, closed, buffer, pending, block, stop, queue, heard, status>>

None == "none"

-----------------------------------------------------------------------------
(* The wire. *)

LF == <<"lf">>
CR == <<"cr">>
Data(i) == <<"data", i>>

Eol == IF script.eol = "crlf" THEN <<CR, LF, CR, LF>> ELSE <<LF, LF>>

Bytes == FlattenSeq([i \in 1..Len(script.frames) |-> <<Data(i)>> \o Eol])

(* find_double_newline: where the first blank line begins, 0 if there is none *)
DoubleNewline(b) ==
    LET At(i) == \/ i + 1 <= Len(b) /\ b[i] = LF /\ b[i + 1] = LF
                 \/ i + 3 <= Len(b) /\ SubSeq(b, i, i + 3) = <<CR, LF, CR, LF>>
        found == {i \in 1..Len(b) : At(i)}
    IN  IF found = {} THEN 0 ELSE Min(found)

(* next_raw: the frame at the front, and the buffer without it and its end;  *)
(* frames without data (comments, keep-alives) are passed over.              *)
TerminatorLen(b, pos) == IF b[pos] = CR THEN 4 ELSE 2

Drained(b) ==
    LET pos == DoubleNewline(b)
    IN  SubSeq(b, pos + TerminatorLen(b, pos), Len(b))

FrameAt(b) ==
    LET line == SelectSeq(SubSeq(b, 1, DoubleNewline(b) - 1),
                          LAMBDA x : x \notin {CR, LF})
    IN  IF line = <<>> THEN [k |-> "comment"] ELSE script.frames[line[1][2]]

-----------------------------------------------------------------------------
(* What a frame of the OpenAI protocol adds to the state of its receiver:   *)
(* process_response.                                                        *)

CallEvents(tc) ==
    (IF tc.id = None THEN <<>> ELSE <<Start(tc.id)>>)
    \o (IF tc.args = "" THEN <<>> ELSE <<Args(tc.args)>>)

(* A mutant: the reason is kept when the usage chunk has announced it.       *)
ProcessResponseKeepsStop(f) ==
    IF f.usage # None
    THEN /\ queue' = Append(queue, Complete(f.usage, stop))
         /\ UNCHANGED <<pending, stop>>
    ELSE /\ stop' = IF f.finish # None THEN f.finish ELSE stop
         /\ queue' = queue \o (IF f.text = "" THEN <<>> ELSE <<Text(f.text)>>)
                           \o FlattenSeq([i \in 1..Len(f.calls) |-> CallEvents(f.calls[i])])
         /\ pending' = pending \cup {f.calls[i].index : i \in
                          {j \in 1..Len(f.calls) : f.calls[j].id # None}}
ProcessResponse(f) ==
    IF f.usage # None
    THEN /\ queue' = Append(queue, Complete(f.usage, stop))
         /\ stop' = None
         /\ UNCHANGED pending
    ELSE /\ stop' = IF f.finish # None THEN f.finish ELSE stop
         /\ queue' = queue \o (IF f.text = "" THEN <<>> ELSE <<Text(f.text)>>)
                           \o FlattenSeq([i \in 1..Len(f.calls) |-> CallEvents(f.calls[i])])
         /\ pending' = pending \cup {f.calls[i].index : i \in
                          {j \in 1..Len(f.calls) : f.calls[j].id # None}}

(* flush_pending_tool_calls: one ToolUseEnd per open call, and the          *)
(* completion no usage chunk has announced yet.                             *)
Flush ==
    /\ queue' = queue \o SetToSeq({[k |-> "end"] : i \in pending})
                      \o (IF stop = None THEN <<>> ELSE <<Complete("zero", stop)>>)
    /\ pending' = {}
    /\ stop' = None

-----------------------------------------------------------------------------
(* What the turn loop does with an event. *)

Hear(e) ==
    heard' =
      CASE e.k = "text"  -> [heard EXCEPT !.text = Append(@, e.t)]
        [] e.k = "think" -> [heard EXCEPT !.think = Append(@, e.t)]
        [] e.k = "start" -> [heard EXCEPT !.calls = Append(@, [id |-> e.id, args |-> <<>>])]
        [] e.k = "args"  -> IF heard.calls = <<>> THEN heard
                            ELSE [heard EXCEPT !.calls[Len(heard.calls)].args = Append(@, e.t)]
        [] e.k = "complete" -> [heard EXCEPT !.stop = e.stop, !.usage = e.usage]
        [] OTHER -> heard

Init ==
    /\ script \in Scripts
    /\ sent = 0 /\ closed = FALSE /\ buffer = <<>>
    /\ pending = {} /\ block = None /\ stop = None /\ queue = <<>>
    /\ heard = [text |-> <<>>, think |-> <<>>, calls |-> <<>>, stop |-> None, usage |-> "zero"]
    /\ status = "open"

(* next_event of the OpenAI receiver, its queue first *)
Pop ==
    /\ status = "open" /\ queue # <<>>
    /\ Hear(Head(queue))
    /\ queue' = Tail(queue)
    /\ UNCHANGED <<script, sent, closed, buffer, pending, block, stop, status>>

Waiting == status = "open" /\ queue = <<>>

OpenAiFrame ==
    /\ Waiting /\ script.kind = "openai"
    /\ DoubleNewline(buffer) # 0
    /\ buffer' = Drained(buffer)
    /\ LET f == FrameAt(buffer) IN
       CASE f.k = "comment" -> UNCHANGED <<pending, stop, queue, status>>
         [] f.k = "bad"     -> status' = "failed" /\ UNCHANGED <<pending, stop, queue>>
         [] f.k = "done"    -> Flush /\ status' = IF queue' = <<>> THEN "done" ELSE "open"
         [] f.k = "data"    -> ProcessResponse(f) /\ UNCHANGED status
    /\ UNCHANGED <<script, sent, closed, block, heard>>

(* StreamEvent: what an Anthropic frame may be, anything else is no answer. *)
StreamEvent == {"message_start", "block_start", "block_delta", "block_stop",
                "message_delta", "message_stop", "ping", "error"}

(* BlockType: a block of any other type leaves the current type as it was.  *)
BlockType == {"text", "thinking", "tool_use"}

(* next_event of the Anthropic receiver: at most one event per frame *)
AnthropicFrame ==
    /\ Waiting /\ script.kind = "anthropic"
    /\ DoubleNewline(buffer) # 0
    /\ buffer' = Drained(buffer)
    /\ LET f == FrameAt(buffer) IN
       CASE f.k \in {"comment", "message_start", "ping"} ->
                UNCHANGED <<block, stop, heard, status>>
         [] f.k \notin (StreamEvent \cup {"comment"}) \ {"error"} -> status' = "failed" /\ UNCHANGED <<block, stop, heard>>
         [] f.k = "block_start" ->
                /\ block' = IF f.type \in BlockType THEN f.type ELSE block
                /\ IF f.type = "tool_use" THEN Hear(Start(f.id)) ELSE UNCHANGED heard
                /\ UNCHANGED <<stop, status>>
         [] f.k = "block_delta" ->
                /\ CASE block = "thinking" /\ f.of = "thinking" -> Hear(Thought(f.t))
                     [] block = "tool_use" /\ f.of = "partial_json" -> Hear(Args(f.t))
                     [] block \notin {"thinking", "tool_use"} /\ f.of = "text" -> Hear(Text(f.t))
                     [] OTHER -> UNCHANGED heard
                /\ UNCHANGED <<block, stop, status>>
         [] f.k = "block_stop" -> block' = None /\ UNCHANGED <<stop, heard, status>>
         [] f.k = "message_delta" ->
                /\ stop' = IF f.finish # None THEN f.finish ELSE stop
                /\ IF f.t = None THEN UNCHANGED heard ELSE Hear(Text(f.t))
                /\ UNCHANGED <<block, status>>
         [] f.k = "message_stop" ->
                /\ Hear(Complete(f.usage, stop))
                /\ stop' = None
                /\ UNCHANGED <<block, status>>
    /\ UNCHANGED <<script, sent, closed, pending, queue>>

(* response.chunk(): the parser has no whole frame, so more bytes are read; *)
(* a chunk ends anywhere.                                                   *)
Fetch(n) ==
    /\ Waiting /\ DoubleNewline(buffer) = 0
    /\ ~closed /\ sent + n <= Len(Bytes)
    /\ buffer' = buffer \o SubSeq(Bytes, sent + 1, sent + n)
    /\ sent' = sent + n
    /\ UNCHANGED <<script, closed, pending, block, stop, queue, heard, status>>

(* The server closes, after its last byte or before it: the OpenAI receiver *)
(* flushes, the Anthropic one only ends.                                    *)
Close ==
    /\ Waiting /\ DoubleNewline(buffer) = 0
    /\ IF script.kind = "openai"
       THEN Flush /\ status' = IF queue' = <<>> THEN "done" ELSE "open"
       ELSE status' = "done" /\ UNCHANGED <<pending, stop, queue>>
    /\ closed' = TRUE
    /\ UNCHANGED <<script, sent, buffer, block, heard>>

Broken ==
    /\ Waiting /\ ~closed /\ DoubleNewline(buffer) = 0
    /\ status' = "failed"
    /\ UNCHANGED <<script, sent, closed, buffer, pending, block, stop, queue, heard>>

Next == Pop \/ OpenAiFrame \/ AnthropicFrame \/ Close \/ Broken
        \/ \E n \in 1..Len(Bytes) : Fetch(n)

Spec == Init /\ [][Next]_vars

-----------------------------------------------------------------------------
(* What the received frames mean, read from their own indices and without   *)
(* any of the receivers' state.                                             *)

Received == SubSeq(script.frames, 1, sent \div (1 + Len(Eol)))

Pieces(P(_)) == LET fs == SelectSeq(Received, P) IN [i \in 1..Len(fs) |-> fs[i].t]

CallsOf(f) == IF f.k = "data" THEN f.calls ELSE <<>>

OpenAiCalls ==
    LET deltas == FlattenSeq([i \in 1..Len(Received) |-> CallsOf(Received[i])])
        opened == SelectSeq(deltas, LAMBDA d : d.id # None)
        ArgsOf(i) == SelectSeq(deltas, LAMBDA d : d.index = i /\ d.args # "")
    IN  [c \in 1..Len(opened) |->
            [id |-> opened[c].id,
             args |-> LET a == ArgsOf(opened[c].index) IN [j \in 1..Len(a) |-> a[j].args]]]

BlockDelta(f, of) == f.k = "block_delta" /\ f.of = of

AnthropicCalls ==
    LET opened == SelectSeq(Received, LAMBDA f : f.k = "block_start" /\ f.type = "tool_use")
        ArgsOf(i) == Pieces(LAMBDA f : BlockDelta(f, "partial_json") /\ f.index = i)
    IN  [c \in 1..Len(opened) |-> [id |-> opened[c].id, args |-> ArgsOf(opened[c].index)]]

OpenAiMeant ==
    LET HasText(f)   == f.k = "data" /\ f.text # ""
        HasUsage(f)  == f.k = "data" /\ f.usage # None
        HasFinish(f) == f.k = "data" /\ f.finish # None
        texts    == SelectSeq(Received, HasText)
        usages   == SelectSeq(Received, HasUsage)
        finishes == SelectSeq(Received, HasFinish)
    IN  [text  |-> [i \in 1..Len(texts) |-> texts[i].text],
         think |-> <<>>,
         calls |-> OpenAiCalls,
         stop  |-> IF finishes = <<>> THEN None ELSE Last(finishes).finish,
         usage |-> IF usages = <<>> THEN "zero" ELSE Last(usages).usage]

AnthropicMeant ==
    LET finishes == SelectSeq(Received, LAMBDA f : f.k = "message_delta" /\ f.finish # None)
        stops    == SelectSeq(Received, LAMBDA f : f.k = "message_stop")
    IN  [text  |-> Pieces(LAMBDA f : \/ BlockDelta(f, "text")
                                    \/ (f.k = "message_delta" /\ f.t # None)),
         think |-> Pieces(LAMBDA f : BlockDelta(f, "thinking")),
         calls |-> AnthropicCalls,
         stop  |-> IF stops # <<>> /\ finishes # <<>> THEN Last(finishes).finish ELSE None,
         usage |-> IF stops = <<>> THEN "zero" ELSE Last(stops).usage]

(* When a stream has ended without an error, the loop holds exactly what    *)
(* the whole frames that arrived say: every piece of text once and in       *)
(* order, every tool call with its own arguments, the reason the model      *)
(* stopped and the usage of the frame that completes it, however the bytes  *)
(* were cut into chunks and wherever the server closed (next_raw,           *)
(* next_event, process_response, flush_pending_tool_calls).  What           *)
(* message_start and message_delta say of the usage is dropped by the       *)
(* Anthropic receiver, and is no part of their frames here.                 *)
HeardIsMeant ==
    status = "done" =>
        heard = IF script.kind = "openai" THEN OpenAiMeant ELSE AnthropicMeant
=============================================================================
