------------------------------ MODULE FileTools ------------------------------
(***************************************************************************)
(* Read, Write and Edit as the calls of one turn.  The calls of a reply run *)
(* at once; each waits for the disk between its checks and its work, and    *)
(* nothing keeps two calls off one file.  The agent remembers which files   *)
(* were read (read_files), the turn which ranges were returned              *)
(* (turn_read_state).  A line of a file is a token; a path is the file it   *)
(* leads to and the way it is spelled.                                      *)
(***************************************************************************)
EXTENDS Naturals, Sequences, FiniteSets, SequencesExt

CONSTANTS Caller,   \* calls that can run at once
          File, Token,
          Contents, \* what a file can hold at first, and what Write is given
          HasProject, \* the session has a project directory
          MaxCalls, \* bound: calls of the turn
          MaxSize,  \* MAX_LIMIT: lines a Read returns at most
          Trigger,  \* REPEAT_SUMMARY_TRIGGER_LINES
          Ends      \* lines a summary shows of each end

Absent == <<"absent">>

FileToolsAssumption ==
    /\ Contents \subseteq Seq(Token)
    /\ Absent \notin Seq(Token)   \* no content, but a mark for none
    /\ HasProject \in BOOLEAN
    /\ {MaxCalls, MaxSize, Trigger, Ends} \subseteq Nat

Spelling == {"absolute", "relative", "outside"}   \* outside: leaves the project by ".."

VARIABLES
    disk,     \* [File -> its lines, or Absent]
    read,     \* read_files: canonical paths
    ranges,   \* turn_read_state: [File -> the <<offset, end>> returned]
    call,     \* [Caller -> the call it runs]
    calls,    \* calls made
    panicked, \* a tool has panicked, and with it the turn
    old,      \* history: files the turn found on the disk
    touched,  \* history: files a call has written
    failed,   \* history: files a Read of which ended with an error
    seen,     \* history: [File -> the lines shown in this turn, <<number, line>>]
    hidden,   \* history: files of which a line was withheld that was never shown
    next,     \* history: [File -> where the reading from its start has come to]
    stale     \* history: an edit was written over a change it had not read
vars == <<disk, read, ranges, call, calls, panicked, old, touched, failed, seen,
          hidden, next, stale>>
told == <<old, touched, failed, seen, hidden, next, stale>>

Idle == [tool |-> "none"]
At(c, tool, step) == call[c].tool = tool /\ call[c].step = step
Exists(f) == disk[f] # Absent

Init ==
    /\ disk \in [File -> Contents \cup {Absent}]
    /\ read = {} /\ ranges = [f \in File |-> {}]
    /\ call = [c \in Caller |-> Idle] /\ calls = 0 /\ panicked = FALSE
    /\ old = {f \in File : disk[f] # Absent} /\ touched = {}
    /\ failed = {} /\ seen = ranges /\ hidden = {}
    /\ next = [f \in File |-> 1] /\ stale = FALSE

(* preprocess_file_tool_input with resolve_path_ref: a relative path needs a *)
(* project and stays in it; only Write may name what is not there.          *)
Resolves(tool, f, how) ==
    /\ how = "absolute" \/ (how = "relative" /\ HasProject)
    /\ tool = "Write" \/ Exists(f)
(* A mutant: Write checks the paths that lead to an absent file only.       *)
MayChangeNew(tool, f) == tool = "Write" \/ f \in read
(* Write and Edit of a file that is there need it to have been read.        *)
MayChange(tool, f) == Exists(f) => f \in read

Start(c, k) ==
    /\ call[c] = Idle /\ calls < MaxCalls /\ ~panicked
    /\ calls' = calls + 1 /\ call' = [call EXCEPT ![c] = k]
Refused(tool, f, how) == ~Resolves(tool, f, how) \/ (tool # "Read" /\ ~MayChange(tool, f))
Passes(tool, f) == {how \in Spelling : ~Refused(tool, f, how)} # {}

(* The call ends at its checks, and nothing has changed.                    *)
Refuse(c) ==
    /\ Start(c, Idle)
    /\ \E tool \in {"Read", "Write", "Edit"}, f \in File, how \in Spelling : Refused(tool, f, how)
    /\ UNCHANGED <<disk, read, ranges, panicked, told>>

(* ReadTool::execute up to the reading: the file is marked as read although *)
(* the reading may still fail.                                              *)
StartRead(c) ==
    \E f \in File, offset \in 0 .. MaxSize + 1, limit \in 0 .. MaxSize :
        /\ Start(c, [tool |-> "Read", step |-> "load", file |-> f, offset |-> offset, limit |-> limit])
        /\ Passes("Read", f)
        /\ read' = read \cup {f}
        /\ UNCHANGED <<disk, ranges, panicked, told>>

Least(a, b) == IF a < b THEN a ELSE b
Before(offset) == IF offset = 0 THEN 0 ELSE offset - 1    \* saturating_sub
LastLine(k, n) == Least(Before(k.offset) + k.limit, n)
Beyond(k, n)   == Before(k.offset) >= n /\ n # 0
Panics(k, n)   == n = 0 /\ Before(k.offset) > 0     \* &lines[start..end], start > end
(* What the answer shows of a range: all of it, or when the turn has had    *)
(* the range before and it is long, its two ends.                           *)
Shown(k, n) ==
    LET all == Before(k.offset) + 1 .. LastLine(k, n)
        repeats == <<k.offset, LastLine(k, n)>> \in ranges[k.file]
    IN IF repeats /\ Cardinality(all) >= Trigger
       THEN {i \in all : i < Before(k.offset) + 1 + Ends \/ i > LastLine(k, n) - Ends}
       ELSE all

(* read_text: the file is read, the ranges of the turn are looked at ...    *)
Lines(s, numbers) == {<<i, s[i]>> : i \in numbers}
Load(c) ==
    LET k == call[c]
        s == disk[k.file]
        n == Len(s)
        withheld == Before(k.offset) + 1 .. LastLine(k, n) \ Shown(k, n)
    IN /\ At(c, "Read", "load") /\ ~panicked
       /\ \/ /\ Beyond(k, n) /\ call' = [call EXCEPT ![c] = Idle]
             /\ failed' = failed \cup {k.file} /\ UNCHANGED panicked
          \/ Panics(k, n) /\ panicked' = TRUE /\ UNCHANGED <<call, failed>>
          \/ /\ ~Beyond(k, n) /\ ~Panics(k, n)
             /\ call' = [call EXCEPT ![c] =
                           [tool |-> "Read", step |-> "record", file |-> k.file, offset |-> k.offset,
                            end |-> LastLine(k, n), shown |-> Lines(s, Shown(k, n)),
                            held |-> Lines(s, withheld), more |-> LastLine(k, n) < n]]
             /\ UNCHANGED <<panicked, failed>>
       /\ UNCHANGED <<disk, read, ranges, calls, old, touched, seen, hidden, next, stale>>
(* ... and the range is recorded when the turn's state can be locked; the   *)
(* answer names the offset to go on with.                                   *)
(* A mutant: end is taken for the last line's number counted from zero.     *)
NextOffsetSkipping(k) == IF k.more THEN k.end + 2 ELSE IF k.end = 0 THEN 1 ELSE k.end
NextOffset(k) == IF k.more THEN k.end + 1 ELSE IF k.end = 0 THEN 1 ELSE k.end
(* record_range of the turn's state.                                        *)
Recorded(k) == ranges[k.file] \cup {<<k.offset, k.end>>}
Record(c) ==
    LET k == call[c]
    IN /\ At(c, "Read", "record") /\ ~panicked
       /\ ranges' = [ranges EXCEPT ![k.file] = Recorded(k)]
       /\ seen' = [seen EXCEPT ![k.file] = @ \cup k.shown]
       /\ hidden' = IF k.held \subseteq seen[k.file] THEN hidden ELSE hidden \cup {k.file}
       /\ next' = IF k.offset = next[k.file] THEN [next EXCEPT ![k.file] = NextOffset(k)] ELSE next
       /\ call' = [call EXCEPT ![c] = Idle]
       /\ UNCHANGED <<disk, read, calls, panicked, old, touched, failed, stale>>

(* WriteTool::execute: the checks.                                          *)
StartWrite(c) ==
    \E f \in File, text \in Contents :
        /\ Start(c, [tool |-> "Write", step |-> "truncate", file |-> f, text |-> text, base |-> Absent])
        /\ Passes("Write", f)
        /\ UNCHANGED <<disk, read, ranges, panicked, told>>

(* EditTool::execute: the checks, ...                                       *)
StartEdit(c) ==
    \E f \in File, from, to \in Token, all \in BOOLEAN :
        /\ Start(c, [tool |-> "Edit", step |-> "load", file |-> f, from |-> from, to |-> to, all |-> all])
        /\ Passes("Edit", f)
        /\ UNCHANGED <<disk, read, ranges, panicked, told>>
(* ... and the replacement in the text that was read: of all occurrences,   *)
(* or of the only one.                                                      *)
Replaced(s, from, to) == [i \in DOMAIN s |-> IF s[i] = from THEN to ELSE s[i]]
Occurrences(s, from)  == Cardinality({i \in DOMAIN s : s[i] = from})
Replace(c) ==
    LET k == call[c]
        n == Occurrences(disk[k.file], k.from)
    IN /\ At(c, "Edit", "load") /\ ~panicked
       /\ call' = [call EXCEPT ![c] =
                     IF n = 0 \/ (~k.all /\ n > 1) THEN Idle
                     ELSE [tool |-> "Edit", step |-> "truncate", file |-> k.file,
                           text |-> Replaced(disk[k.file], k.from, k.to), base |-> disk[k.file]]]
       /\ UNCHANGED <<disk, read, ranges, calls, panicked, told>>

(* fs::write empties the file, then fills it: others may find it empty.     *)
Truncate(c) ==
    LET k == call[c]
    IN /\ call[c].tool \in {"Write", "Edit"} /\ call[c].step = "truncate" /\ ~panicked
       /\ stale' = (stale \/ (k.tool = "Edit" /\ disk[k.file] # k.base))
       /\ disk' = [disk EXCEPT ![k.file] = <<>>]
       /\ touched' = touched \cup {k.file}
       /\ call' = [call EXCEPT ![c].step = "fill"]
       /\ UNCHANGED <<read, ranges, calls, panicked, old, failed, seen, hidden, next>>
Fill(c) ==
    LET k == call[c]
    IN /\ call[c].tool \in {"Write", "Edit"} /\ call[c].step = "fill" /\ ~panicked
       /\ disk' = [disk EXCEPT ![k.file] = k.text]
       /\ call' = [call EXCEPT ![c] = Idle]
       /\ UNCHANGED <<read, ranges, calls, panicked, told>>

(* The disk fails whoever waits for it: the file cannot be read or written, *)
(* or stays empty.                                                          *)
DiskFails(c) ==
    /\ call[c] # Idle /\ call[c].step \in {"load", "truncate", "fill"} /\ ~panicked
    /\ failed' = IF call[c].tool = "Read" THEN failed \cup {call[c].file} ELSE failed
    /\ call' = [call EXCEPT ![c] = Idle]
    /\ UNCHANGED <<disk, read, ranges, calls, panicked, old, touched, seen, hidden, next, stale>>

Next == \E c \in Caller :
           \/ Refuse(c) \/ StartRead(c) \/ Load(c) \/ Record(c)
           \/ StartWrite(c) \/ StartEdit(c) \/ Replace(c) \/ Truncate(c) \/ Fill(c)
           \/ DiskFails(c)
Spec == Init /\ [][Next]_vars

-----------------------------------------------------------------------------
(* A file the turn found on the disk is written only when a Read of it has  *)
(* answered, has failed or is still at work, however the path was spelled   *)
(* and whatever ran beside the check.  That it answered is not ensured: the *)
(* Read is noted before the disk is read (read.rs:257, write.rs:90,         *)
(* edit.rs:118).                                                            *)
UnreadUntouched ==
    old \cap touched \subseteq
        {f \in File : ranges[f] # {}} \cup failed
            \cup {call[c].file : c \in {d \in Caller : call[d].tool = "Read"}}

(* Who reads a file from its start and goes on at the next_offset of each   *)
(* answer has been shown every line on the way in some state it had in this *)
(* turn, and as it stands if no call of the turn has written the file.      *)
(* Until then a repeat withholds only what was shown (read_text).           *)
PagesTold ==
    /\ \A f \in File : \A i \in 1 .. next[f] - 1 :
          /\ \E line \in Token : <<i, line>> \in seen[f]
          /\ f \notin touched => <<i, disk[f][i]>> \in seen[f]
    /\ hidden \subseteq touched

(* What write.rs:60 says of Write, "Requires the file to have been read     *)
(* first if it exists".                                                     *)
ReadBeforeWritten == old \cap touched \subseteq {f \in File : ranges[f] # {}}

(* What read.rs:133 says of a range it withholds, "has already been         *)
(* returned once in this turn".                                             *)
WithheldWasShown == hidden = {}

(* "Performs exact string replacements in files" (edit.rs:70): what an edit *)
(* writes is the file with the string replaced, so no edit is written over  *)
(* a change it has not read.                                                *)
EditsKept == ~stale
=============================================================================
