-------------------------------- MODULE MCEval --------------------------------
(* Eval on a small instance. *)
EXTENDS Eval, TLC

CONSTANTS p1, p2

Probs == (p1 :> 30) @@ (p2 :> 100)
Windows == [w \in {"7d", "30d"} |-> IF w = "7d" THEN 2 ELSE 5]
WinOrLose == {40, -60}
=============================================================================
