------------------------------ MODULE MCForwards ------------------------------
(* Instances of Forwards for TLC. *)
EXTENDS Forwards, TLC

CONSTANTS A, B, x, y, editor, app

TwoTargets == {A, B}
TwoRunners == {x, y}
TwoLabels == {editor, app}
OneLabel == {editor}
EditorFirst == (editor :> 0) @@ (app :> 1)
EditorOnly == [l \in OneLabel |-> 0]
BothHaveAnApp == [t \in TwoTargets |-> {editor, app}]
EditorsOnly == [t \in TwoTargets |-> {editor}]
AnyCommand == [t \in TwoTargets |-> {"run", "stop", "purge", "move", "stopAll"}]
AllButStopAll == [t \in TwoTargets |-> {"run", "stop", "purge", "move"}]
StartsOnly == [t \in TwoTargets |-> {"run"}]
RunnerSymmetry == Permutations(Runners)
=============================================================================
