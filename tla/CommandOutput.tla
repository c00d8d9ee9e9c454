---------------------------- MODULE CommandOutput ----------------------------
(***************************************************************************)
(* A command of the Bash tool in the foreground: the process writes to two  *)
(* pipes, one task reads both with a select! over read_until, sends what    *)
(* it read as LogDelta events and answers with what it collected, cut at a  *)
(* limit.  Bytes are units <<number, ends a line>>, numbered from 1 as they *)
(* are written; the line that reports a read error is a unit of number 0.   *)
(* Left out: how bytes are decoded to text.                                 *)
(***************************************************************************)
EXTENDS Naturals, Sequences, SequencesExt

Stream == {"stdout", "stderr"}

CONSTANTS MaxUnits,   \* bound: units the process writes
          MaxShown    \* [Stream -> units of it an answer shows]

CommandOutputAssumption == MaxUnits \in Nat /\ MaxShown \in [Stream -> Nat]

Other(s) == IF s = "stdout" THEN "stderr" ELSE "stdout"
No == [s \in Stream |-> <<>>]

VARIABLES
    written,   \* units written
    process,   \* "runs", "left" (ended, a child of its own keeps the pipes), "ended"
    wrote,     \* history: [Stream -> what the process wrote]
    pipe,      \* [Stream -> units not read yet]
    partial,   \* [Stream -> buf of the read_until that is being polled]
    collected, \* stdout_bytes, stderr_bytes
    pending,   \* pending_stdout, pending_stderr
    logs,      \* [Stream -> what was sent as LogDelta]
    done,      \* stdout_done, stderr_done
    answer,    \* "none", "exited", "failed", "timeout"
    shown      \* [Stream -> what the answer has of it, and if that is cut]
vars == <<written, process, wrote, pipe, partial, collected, pending, logs, done, answer, shown>>

Nothing == [s \in Stream |-> [text |-> <<>>, cut |-> FALSE]]

Init ==
    /\ written = 0 /\ process = "runs" /\ wrote = No /\ pipe = No
    /\ partial = No /\ collected = No /\ pending = No /\ logs = No
    /\ done = [s \in Stream |-> FALSE] /\ answer = "none" /\ shown = Nothing

(* The process, outside of the program, and the child that keeps its pipes. *)
Write(s, endsLine) ==
    /\ process # "ended" /\ written < MaxUnits
    /\ written' = written + 1
    /\ wrote' = [wrote EXCEPT ![s] = Append(@, <<written + 1, endsLine>>)]
    /\ pipe' = [pipe EXCEPT ![s] = Append(@, <<written + 1, endsLine>>)]
    /\ UNCHANGED <<process, partial, collected, pending, logs, done, answer, shown>>
Exit ==
    /\ process # "ended" /\ process' \in {"left", "ended"}
    /\ UNCHANGED <<written, wrote, pipe, partial, collected, pending, logs, done, answer, shown>>

(* A poll of read_until takes what the pipe holds, up to a line end ...     *)
LineEnds(s) == {i \in DOMAIN pipe[s] : pipe[s][i][2]}
Line(s)     == SubSeq(pipe[s], 1, CHOOSE i \in LineEnds(s) : \A j \in LineEnds(s) : i <= j)
Taken(s)    == IF LineEnds(s) # {} THEN Line(s) ELSE pipe[s]
(* ... and is ready at a line end or at the end of the stream.              *)
Ready(s)    == LineEnds(s) # {} \/ process = "ended"
Reading(s)  == answer = "none" /\ ~done[s]

(* A mutant: the poll copies what the pipe holds and leaves it there.        *)
PollPeeks(s) ==
    /\ Reading(s) /\ ~Ready(s) /\ partial[s] # pipe[s]
    /\ partial' = [partial EXCEPT ![s] = pipe[s]]
    /\ UNCHANGED <<written, process, wrote, pipe, collected, pending, logs, done, answer, shown>>
(* A poll that is not ready keeps what it took in its buffer.               *)
Poll(s) ==
    /\ Reading(s) /\ ~Ready(s) /\ pipe[s] # <<>>
    /\ partial' = [partial EXCEPT ![s] = @ \o pipe[s]]
    /\ pipe' = [pipe EXCEPT ![s] = <<>>]
    /\ UNCHANGED <<written, process, wrote, collected, pending, logs, done, answer, shown>>

(* A branch that is ready ends the select!: its chunk is collected, kept    *)
(* for the log and sent when 200 ms have passed since the last one; the     *)
(* future of the other branch is dropped with its buffer.                   *)
(* A mutant: what is pending is sent and kept.                              *)
KeepPending(s, chunk) ==
    \/ /\ logs' = [logs EXCEPT ![s] = @ \o pending[s] \o chunk]
       /\ pending' = [pending EXCEPT ![s] = @ \o chunk]
    \/ /\ pending' = [pending EXCEPT ![s] = @ \o chunk] /\ UNCHANGED logs
Log(s, chunk) ==
    \/ /\ logs' = [logs EXCEPT ![s] = @ \o pending[s] \o chunk]
       /\ pending' = [pending EXCEPT ![s] = <<>>]
    \/ /\ pending' = [pending EXCEPT ![s] = @ \o chunk] /\ UNCHANGED logs
Chunk(s) ==
    LET chunk == partial[s] \o Taken(s)
    IN /\ Reading(s) /\ Ready(s) /\ chunk # <<>>
       /\ pipe' = [pipe EXCEPT ![s] = SubSeq(@, Len(Taken(s)) + 1, Len(@))]
       /\ collected' = [collected EXCEPT ![s] = @ \o chunk]
       /\ Log(s, chunk)
       /\ partial' = No
       /\ UNCHANGED <<written, process, wrote, done, answer, shown>>
EndOfStream(s) ==
    /\ Reading(s) /\ process = "ended" /\ partial[s] \o pipe[s] = <<>>
    /\ done' = [done EXCEPT ![s] = TRUE]
    /\ partial' = No
    /\ UNCHANGED <<written, process, wrote, pipe, collected, pending, logs, answer, shown>>
(* A read that fails ends its stream, whatever it had taken is lost, and    *)
(* stderr, but not the log, has a line that says so.                        *)
ReadError(s) == <<0, s = "stdout">>
ReadFails(s) ==
    /\ Reading(s)
    /\ collected' = [collected EXCEPT !["stderr"] = Append(@, ReadError(s))]
    /\ done' = [done EXCEPT ![s] = TRUE]
    /\ partial' = No
    /\ UNCHANGED <<written, process, wrote, pipe, pending, logs, answer, shown>>

(* Both streams have ended: the rest of each is logged, stdout first, ...   *)
Ended == answer = "none" /\ \A s \in Stream : done[s]
Flush(s) ==
    /\ Ended /\ pending[s] # <<>> /\ (s = "stderr" => pending["stdout"] = <<>>)
    /\ logs' = [logs EXCEPT ![s] = @ \o pending[s]]
    /\ pending' = [pending EXCEPT ![s] = <<>>]
    /\ UNCHANGED <<written, process, wrote, pipe, partial, collected, done, answer, shown>>
(* ... and when the process is waited for the answer is built, of no more   *)
(* than its limit of each stream; or waiting fails.                         *)
Truncated(s) ==
    LET bytes == collected[s]
    IN IF Len(bytes) > MaxShown[s] THEN [text |-> SubSeq(bytes, 1, MaxShown[s]), cut |-> TRUE]
       ELSE [text |-> bytes, cut |-> FALSE]
Answer ==
    /\ Ended /\ pending = No
    /\ \/ process # "runs" /\ answer' = "exited" /\ shown' = [s \in Stream |-> Truncated(s)]
       \/ answer' = "failed" /\ UNCHANGED shown
    /\ UNCHANGED <<written, process, wrote, pipe, partial, collected, pending, logs, done>>
(* The timeout drops the reader, kills the process and answers with what    *)
(* was collected.                                                           *)
TimeOut ==
    /\ answer = "none"
    /\ answer' = "timeout" /\ process' = "ended" /\ partial' = No
    /\ shown' = [s \in Stream |-> Truncated(s)]
    /\ UNCHANGED <<written, wrote, pipe, collected, pending, logs, done>>

Next ==
    \/ \E s \in Stream :
          \/ \E e \in BOOLEAN : Write(s, e)
          \/ Poll(s) \/ Chunk(s) \/ EndOfStream(s) \/ ReadFails(s) \/ Flush(s)
    \/ Exit \/ Answer \/ TimeOut
Spec == Init /\ [][Next]_vars

-----------------------------------------------------------------------------
(* The client was shown what the model is given, and all of it that was     *)
(* read: when the command has ended by itself, the answer has of each       *)
(* stream the units of the log, no more, none left out before one it shows  *)
(* and, unless it is cut at its limit, no less.  The lines that report a    *)
(* read error are in the answer alone (bash/mod.rs:253, bash/mod.rs:330).   *)
Read(seq) == {u \in ToSet(seq) : u[1] # 0}
LogsAreTheAnswer ==
    answer = "exited" => \A s \in Stream :
        LET text == shown[s].text
        IN /\ Read(text) \subseteq ToSet(logs[s])
           /\ \A u \in Read(text) : \A v \in ToSet(logs[s]) : v[1] < u[1] => v \in Read(text)
           /\ ~shown[s].cut => ToSet(logs[s]) \subseteq Read(text)
           /\ shown[s].cut => Len(text) = MaxShown[s]

(* Nothing is logged or answered that was not written, nor out of order, nor *)
(* twice.                                                                   *)
InOrder == \A s \in Stream : \A seq \in {logs[s], shown[s].text} : \A i, j \in DOMAIN seq :
              /\ i < j /\ seq[i][1] # 0 /\ seq[j][1] # 0 => seq[i][1] < seq[j][1]
              /\ seq[i][1] # 0 => seq[i] \in ToSet(wrote[s])

(* "Returns stdout, stderr and exit code" (bash/mod.rs:123): the answer of  *)
(* a command that ended by itself, with no read error, has all that was     *)
(* written of a stream, or as much as its limit.                            *)
OutputWhole ==
    answer = "exited" /\ ToSet(collected["stderr"]) = Read(collected["stderr"]) =>
        \A s \in Stream : shown[s].cut \/ shown[s].text = wrote[s]
=============================================================================
