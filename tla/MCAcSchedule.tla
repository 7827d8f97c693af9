---------------------------- MODULE MCAcSchedule ----------------------------
(***************************************************************************)
(* Task graphs for model-checking AcSchedule.                               *)
(***************************************************************************)
EXTENDS AcSchedule, TLC

CONSTANTS begin, src, side, sync, gate, sink

\* A function on Tasks from the few tasks it does not map to {}.
Links(f) == [t \in Tasks |-> IF t \in DOMAIN f THEN f[t] ELSE {}]

\* begin is a checkpoint that completes in schedule_setup; src waits for it and
\* has two partitions; side follows src partition by partition; sync is a
\* checkpoint after all of src, gate a partitioned checkpoint after sync, and
\* sink waits for both of gate's partitions and both of side's.
FlowTasks == {begin, src, side, sync, gate, sink}
FlowDependencies == Links(src :> {begin} @@ sync :> {src} @@ sink :> {gate, side})
FlowPartial == Links(side :> {src} @@ gate :> {sync})
FlowPartitioned == {src, side, gate}
FlowDoNothing == {begin, sync, gate}

\* side and sink need src; begin is unrelated to them.
FanTasks == {begin, src, side, sink}
FanDependencies == Links(side :> {src} @@ sink :> {src})

NoLinks == [t \in Tasks |-> {}]
NoTasks == {}
NoWorkers == {}
JustSrc == {<<src, 0>>}
JustSide == {<<side, 0>>}
=============================================================================
