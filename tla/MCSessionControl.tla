--------------------------- MODULE MCSessionControl ---------------------------
(* Values for the constants of SessionControl, and a bound: statements fail  *)
(* and the process ends among the first FewCalls calls only.                 *)
EXTENDS SessionControl

CONSTANT FewCalls

MCMinTexts == <<1, 2>>
FaultsEarly == errors + crashes > 0 => calls <= FewCalls
MCSpec == /\ Init /\ [][Next /\ FaultsEarly']_vars
          /\ \A a \in Actor : WF_vars(Step(a))
===============================================================================
