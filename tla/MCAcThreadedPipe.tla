-------------------------- MODULE MCAcThreadedPipe --------------------------
(***************************************************************************)
(* Instances for model-checking AcThreadedPipe.                             *)
(***************************************************************************)
EXTENDS AcThreadedPipe, TLC

CONSTANTS o1, o2, o3

AllObjects == {o1, o2, o3}

\* No updates, three objects and room for them and Close.
Plain == [thread_args |-> TRUE, updates |-> FALSE, objects |-> AllObjects, capacity |-> 4]
\* Updates of the global argument alone, over a pipe that may be full for Close.
Global == [thread_args |-> FALSE, updates |-> TRUE, objects |-> {o1}, capacity |-> 1]
\* Updates of both arguments.
Both == [thread_args |-> TRUE, updates |-> TRUE, objects |-> {o1}, capacity |-> 2]

AllConfigurations == {Plain, Global, Both}
=============================================================================
