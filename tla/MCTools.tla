------------------------------- MODULE MCTools -------------------------------
(* An instance of Tools: the registry with a deferred tool and one of the    *)
(* host, whose factory panics; one call at a time on the list of tasks; two  *)
(* files and three calls, two at once; and a command that writes three       *)
(* units, of which the answer shows two of stdout and one of stderr.         *)
EXTENDS Tools, TLC

CONSTANTS search, host, c1, c2, f, g

MCTool == {search, host}
MCHost == {host}
MCTurns == [s \in {Root, Child} |-> IF s = Root THEN 2 ELSE 1]
MCContents == {<<"a", "b", "a">>}
MCCaller == {c1, c2}
MCFile == {f, g}
MCMaxShown == [stdout |-> 2, stderr |-> 1]

(* The calls of FileTools and its files are interchangeable.                 *)
Alike == Permutations(MCCaller) \cup Permutations(MCFile)
==============================================================================
