------------------------------ MODULE TaskGraph ------------------------------
(***************************************************************************)
(* What ac_schedule promises of a schedule, without threads, lists or       *)
(* locks: every worker is started at most once, only after everything it    *)
(* depends on is complete, and a checkpoint completes by itself together    *)
(* with the last of its dependencies.  AcSchedule implements this module.   *)
(***************************************************************************)
CONSTANTS
  Worker,          \* everything there is to complete
  Checkpoint,      \* the workers that complete without being started
  SetupCompleted,  \* the checkpoints complete from the start
  IsDependenciesComplete(_, _)  \* given w and the completed set: may w start?

VARIABLES
  running,    \* workers handed to a thread and not complete yet
  completed

vars == <<running, completed>>

Init ==
  /\ running = {}
  /\ completed = SetupCompleted

Start(w) ==
  /\ w \notin running
  /\ running' = running \cup {w}
  /\ w \notin completed \cup Checkpoint
  /\ IsDependenciesComplete(w, completed)
  /\ UNCHANGED completed

\* The checkpoints that complete together with w have all they depend on in the
\* new completed set.
Finish(w) ==
  /\ w \in running
  /\ running' = running \ {w}
  /\ completed \cup {w} \subseteq completed'
  /\ completed' \subseteq completed \cup {w} \cup Checkpoint
  /\ \A k \in completed' \ (completed \cup {w}) : IsDependenciesComplete(k, completed')

Next == \E w \in Worker : Start(w) \/ Finish(w)

Spec == Init /\ [][Next]_vars
==============================================================================
