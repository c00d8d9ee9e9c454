---------------------------- MODULE MCSessionTree ----------------------------
(* Sub-agent calls are interchangeable.                                     *)
EXTENDS SessionTree, TLC

Sym == Permutations(Task)
==============================================================================
