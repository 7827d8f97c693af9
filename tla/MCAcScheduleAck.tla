--------------------------- MODULE MCAcScheduleAck ---------------------------
(***************************************************************************)
(* Task graphs and command lines for model-checking AcScheduleAck.          *)
(***************************************************************************)
EXTENDS AcScheduleAck, TLC

CONSTANTS left, right, sync, side

Links(f) == [t \in Tasks |-> IF t \in DOMAIN f THEN f[t] ELSE {}]

\* side follows left through the checkpoint sync; right follows left and reads its
\* output.
ChainTasks == {left, right, sync, side}
ChainDependencies == Links(sync :> {left} @@ side :> {sync} @@ right :> {left})
ChainOutputs == Links(right :> {left})

NoLinks == [t \in Tasks |-> {}]
NoTasks == {}
JustSync == {sync}
JustRight == {right}
InputsChain == {<<left, 0>>, <<side, 0>>}

AskAll == [force |-> {}, only |-> Worker]
AskLeft == [force |-> {}, only |-> {<<left, 0>>}]
ForceLeft == [force |-> {<<left, 0>>}, only |-> Worker]
ForceOnlyLeft == [force |-> {<<left, 0>>}, only |-> {<<left, 0>>}]

Unforced == {AskAll, AskLeft}
Every == {AskAll, AskLeft, ForceLeft, ForceOnlyLeft}
=============================================================================
