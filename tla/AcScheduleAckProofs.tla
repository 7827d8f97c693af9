------------------------- MODULE AcScheduleAckProofs -------------------------
(***************************************************************************)
(* Proofs about AcScheduleAck: for every task graph, every command line and *)
(* every sequence of processes, what the ack files say holds.               *)
(***************************************************************************)
EXTENDS AcScheduleAck, AcTasksLemmas

-----------------------------------------------------------------------------
(* The graph: whose output a worker reads *)

\* The dependencies of w are complete when the workers directly before it are.
LEMMA CompleteBefore ==
  ASSUME NEW w \in Worker, NEW C
  PROVE  IsDependenciesComplete(w, C) <=> DirectlyBefore(w) \subseteq C
<1>1. ASSUME IsDependenciesComplete(w, C), NEW d \in DirectlyBefore(w)
      PROVE  d \in C
  <2>1. d \in Worker /\ d[2] \in Partitions(d[1]) /\ d = <<d[1], d[2]>>
    BY WorkerPairs DEF DirectlyBefore
  <2>2. CASE d[1] \in Dependencies[w[1]]
    BY <1>1, <2>1, <2>2 DEF IsDependenciesComplete, IsTaskComplete
  <2>3. CASE /\ d[1] \in PartialDependencies[w[1]]
             /\ d[2] = IF w[2] \in Partitions(d[1]) THEN w[2] ELSE 0
    BY <1>1, <2>1, <2>3 DEF IsDependenciesComplete, IsWorkerComplete
  <2> QED
    BY <2>2, <2>3 DEF DirectlyBefore
<1>2. ASSUME DirectlyBefore(w) \subseteq C
      PROVE  IsDependenciesComplete(w, C)
  <2>1. ASSUME NEW d \in Dependencies[w[1]], NEW p \in Partitions(d)
        PROVE  <<d, p>> \in C
    <3>1. d \in Tasks
      BY WorkerPairs, TasksAssumption
    <3>2. <<d, p>> \in Worker /\ <<d, p>>[1] = d
      BY <3>1, WorkerPairs
    <3>3. <<d, p>> \in DirectlyBefore(w)
      BY <3>2 DEF DirectlyBefore
    <3> QED
      BY <1>2, <3>3
  <2>2. ASSUME NEW d \in PartialDependencies[w[1]]
        PROVE  IsWorkerComplete(d, w[2], C)
    <3> DEFINE p == IF w[2] \in Partitions(d) THEN w[2] ELSE 0
    <3>1. d \in Tasks
      BY WorkerPairs, TasksAssumption
    <3>2. p \in Partitions(d)
      BY <3>1, WorkerPairs
    <3>3. <<d, p>> \in Worker /\ <<d, p>>[1] = d /\ <<d, p>>[2] = p
      BY <3>1, <3>2, WorkerPairs
    <3>4. <<d, p>> \in DirectlyBefore(w)
      BY <3>3 DEF DirectlyBefore
    <3> QED
      BY <1>2, <3>4 DEF IsWorkerComplete
  <2> QED
    BY <2>1, <2>2 DEF IsDependenciesComplete, IsTaskComplete
<1> QED
  BY <1>1, <1>2

\* Upstream is the least set: whatever holds the workers directly before w, and those
\* before its checkpoints, holds Upstream[w].
LEMMA UpstreamLeast ==
  ASSUME NEW w \in Worker, NEW S \in SUBSET Worker,
         \A x \in {w} \cup (S \cap Checkpoint) : DirectlyBefore(x) \subseteq S
  PROVE  Upstream[w] \subseteq S
BY DEF Upstream

\* And it is closed: checkpoints are transparent.
LEMMA UpstreamClosed ==
  ASSUME NEW w \in Worker
  PROVE  /\ Upstream[w] \subseteq Worker \ Checkpoint
         /\ DirectlyBefore(w) \ Checkpoint \subseteq Upstream[w]
         /\ \A k \in DirectlyBefore(w) \cap Checkpoint : Upstream[k] \subseteq Upstream[w]
<1> DEFINE Closed(v, S) ==
             \A x \in {v} \cup (S \cap Checkpoint) : DirectlyBefore(x) \subseteq S
<1>1. \A v \in Worker :
        Upstream[v] = {d \in Worker \ Checkpoint :
                         \A S \in SUBSET Worker : Closed(v, S) => d \in S}
  BY DEF Upstream
<1>2. DirectlyBefore(w) \subseteq Worker
  BY DEF DirectlyBefore
<1>3. ASSUME NEW d \in DirectlyBefore(w) \ Checkpoint
      PROVE  d \in Upstream[w]
  <2>1. \A S \in SUBSET Worker : Closed(w, S) => d \in S
    OBVIOUS
  <2> QED
    BY <1>1, <1>2, <2>1
<1>4. ASSUME NEW k \in DirectlyBefore(w) \cap Checkpoint, NEW d \in Upstream[k]
      PROVE  d \in Upstream[w]
  <2>1. k \in Worker
    BY DEF Checkpoint
  <2>2. \A S \in SUBSET Worker : Closed(w, S) => Closed(k, S)
    OBVIOUS
  <2>3. d \in Worker \ Checkpoint /\ \A S \in SUBSET Worker : Closed(k, S) => d \in S
    BY <1>1, <2>1
  <2>4. \A S \in SUBSET Worker : Closed(w, S) => d \in S
    BY <2>2, <2>3
  <2> QED
    BY <1>1, <2>3, <2>4
<1> QED
  BY <1>1, <1>3, <1>4

\* A worker that no longer waits has all of Upstream behind it.
LEMMA UpstreamComplete ==
  ASSUME TypeOK, LinksInv, up, NEW w \in Worker \ waiting
  PROVE  Upstream[w] \subseteq Completed
<1>1. Completed \in SUBSET Worker
  BY DEF Completed
<1>2. ASSUME NEW x \in {w} \cup (Completed \cap Checkpoint)
      PROVE  DirectlyBefore(x) \subseteq Completed
  <2>1. x \in Worker \ waiting
    BY <1>1 DEF LinksInv
  <2>2. IsDependenciesComplete(x, Completed)
    BY <2>1 DEF LinksInv
  <2> QED
    BY <2>1, <2>2, CompleteBefore
<1> QED
  BY <1>1, <1>2, UpstreamLeast

LEMMA DownstreamIsUpstream ==
  ASSUME NEW d, NEW w
  PROVE  w \in Downstream(d) <=> w \in Worker \ Checkpoint /\ d \in Upstream[w]
BY DEF Downstream

-----------------------------------------------------------------------------
(* What one step does to the places a worker can be in *)

\* What mark_task_complete does when w, which is no checkpoint, completes: K are the
\* checkpoints it completes on the way.
Marked(w, when, K) ==
  /\ K \subseteq waiting \cap Checkpoint
  /\ \A x \in Worker : completed'[x] = IF x \in K \cup {w} THEN when ELSE completed[x]
  /\ Completed' = Completed \cup {w} \cup K
  /\ waiting' \subseteq waiting
  /\ waiting' \cap Completed' = {}
  /\ Checkpoint \subseteq waiting' \cup Completed'
  /\ \A x \in Worker : x \in waiting' <=> ~IsDependenciesComplete(x, Completed')
  /\ \A k \in K : w \in Upstream[k]

\* A checkpoint that completes with w has w upstream: the cascade is the least set.
LEMMA CascadeUpstream ==
  ASSUME NEW w \in Worker \ Checkpoint, NEW W \in SUBSET Worker, NEW C,
         \A x \in W : ~IsDependenciesComplete(x, C),
         NEW k \in Cascade(w, W, C)
  PROVE  w \in Upstream[k]
<1> DEFINE T == {x \in Cascade(w, W, C) : w \in Upstream[x]}
<1>1. T \in SUBSET (W \cap Checkpoint)
  BY CascadeIsClosed
<1>2. ASSUME NEW x \in W \cap Checkpoint, Ready(x, w, T, C)
      PROVE  x \in T
  <2>1. T \subseteq Cascade(w, W, C)
    OBVIOUS
  <2>2. Ready(x, w, Cascade(w, W, C), C)
    BY <1>2, <2>1, ReadyMonotone
  <2>3. x \in Cascade(w, W, C)
    BY <2>2, CascadeIsClosed DEF CascadeClosed
  <2>4. IsDependenciesComplete(x, C \cup T \cup {w})
    BY <1>2 DEF Ready
  <2>5. DirectlyBefore(x) \subseteq C \cup T \cup {w}
    BY <2>4, CompleteBefore
  <2>6. PICK d \in DirectlyBefore(x) : d \notin C
    BY CompleteBefore
  <2>7. CASE d = w
    BY <2>6, <2>7, <2>3, UpstreamClosed
  <2>8. CASE d \in T
    <3>1. d \in Checkpoint /\ w \in Upstream[d]
      BY <1>1, <2>8
    <3> QED
      BY <2>3, <2>6, <3>1, UpstreamClosed
  <2> QED
    BY <2>5, <2>6, <2>7, <2>8
<1>3. CascadeClosed(T, w, W, C)
  BY <1>2 DEF CascadeClosed
<1> QED
  BY <1>1, <1>3 DEF Cascade

LEMMA MarkFacts ==
  ASSUME TypeOK, LinksInv, up, NEW w \in Worker \ (waiting \cup Completed),
         NEW when \in Nat, when # 0, MarkTaskComplete(w, when)
  PROVE  /\ w \notin Checkpoint
         /\ completed' \in [Worker -> {when} \cup {completed[x] : x \in Worker}]
         /\ \E K \in SUBSET Worker : Marked(w, when, K)
<1> DEFINE K == Cascade(w, waiting, Completed)
           R == Released(w, waiting, Completed)
<1>1. w \notin Checkpoint
  BY DEF LinksInv
<1>2. K \subseteq waiting \cap Checkpoint /\ K \in SUBSET Worker
  BY CascadeIsClosed DEF TypeOK
<1>3. completed' = [x \in Worker |-> IF x \in K \cup {w} THEN when ELSE completed[x]]
      /\ waiting' = waiting \ (K \cup R)
  BY DEF MarkTaskComplete
<1>4. Completed' = Completed \cup {w} \cup K
  <2>1. Completed' = {x \in Worker : completed'[x] # 0}
    BY DEF Completed
  <2>2. \A x \in Worker : completed'[x] # 0 <=> x \in K \cup {w} \/ completed[x] # 0
    BY <1>3
  <2> QED
    BY <1>2, <2>1, <2>2 DEF Completed
<1>5. R \cap Checkpoint = {}
  BY DEF Released
<1>6. \A x \in waiting : x \in Worker /\ ~IsDependenciesComplete(x, Completed)
  BY DEF LinksInv, TypeOK
<1>7. \A x \in K \cup R : IsDependenciesComplete(x, Completed \cup {w} \cup K)
  BY ReleasedAreReady
<1>8. ASSUME NEW x \in waiting \ (K \cup R)
      PROVE  ~IsDependenciesComplete(x, Completed \cup {w} \cup K)
  BY <1>6, NothingMissed
<1>9. ASSUME NEW x \in Worker \ waiting
      PROVE  IsDependenciesComplete(x, Completed \cup {w} \cup K)
  <2>1. IsDependenciesComplete(x, Completed)
    BY DEF LinksInv
  <2>2. Completed \subseteq Completed \cup {w} \cup K
    OBVIOUS
  <2> QED
    BY <2>1, <2>2, CompleteMonotone
<1>10. \A x \in Worker : x \in waiting' <=> ~IsDependenciesComplete(x, Completed')
  BY <1>3, <1>4, <1>7, <1>8, <1>9
<1>11. waiting' \subseteq waiting
  BY <1>3
<1>12. waiting' \cap Completed' = {}
  BY <1>3, <1>4 DEF LinksInv
<1>13. Checkpoint \subseteq waiting' \cup Completed'
  BY <1>3, <1>4, <1>5 DEF LinksInv
<1>14. \A k \in K : w \in Upstream[k]
  BY <1>1, <1>6, CascadeUpstream DEF TypeOK
<1>15. completed' \in [Worker -> {when} \cup {completed[x] : x \in Worker}]
  BY <1>3
<1>16. \A x \in Worker : completed'[x] = IF x \in K \cup {w} THEN when ELSE completed[x]
  BY <1>3
<1>17. Marked(w, when, K)
  BY <1>2, <1>4, <1>10, <1>11, <1>12, <1>13, <1>14, <1>16 DEF Marked
<1> QED
  BY <1>1, <1>2, <1>15, <1>17

\* What a skipped worker passes on is never 0.
LEMMA SkipFacts ==
  ASSUME TypeOK, LinksInv, NEW w \in Worker, SkipWorker(w)
  PROVE  /\ up /\ w \in Worker \ (waiting \cup Completed \cup Held)
         /\ w \notin Checkpoint
         /\ \E when \in 1 .. MaxClock : \E K \in SUBSET Worker :
              /\ when = IF loaded[w] # 0 THEN loaded[w] ELSE 1
              /\ Marked(w, when, K)
              /\ completed' \in [Worker -> 0 .. MaxClock]
         /\ UNCHANGED <<now, ack, modified, written, stale, up, request, loaded,
                        running, finished>>
<1> DEFINE when == IF loaded[w] # 0 THEN loaded[w] ELSE 1
<1>1. up /\ w \in Worker \ (waiting \cup Completed \cup Held)
      /\ MarkTaskComplete(w, when)
      /\ UNCHANGED <<now, ack, modified, written, stale, up, request, loaded,
                     running, finished>>
  BY DEF SkipWorker, Available, Held, Ended, disk
<1>2. when \in 1 .. MaxClock /\ when \in Nat /\ when # 0
  BY AckAssumption DEF TypeOK
<1>3. \A x \in Worker : completed[x] \in 0 .. MaxClock
  BY DEF TypeOK
<1>4. completed' \in [Worker -> 0 .. MaxClock]
  <2>1. completed' \in [Worker -> {when} \cup {completed[x] : x \in Worker}]
    BY <1>1, <1>2, MarkFacts
  <2>2. {when} \cup {completed[x] : x \in Worker} \subseteq 0 .. MaxClock
    BY <1>2, <1>3
  <2> QED
    BY <2>1, <2>2
<1>5. w \notin Checkpoint /\ \E K \in SUBSET Worker : Marked(w, when, K)
  BY <1>1, <1>2, MarkFacts
<1> QED
  BY <1>1, <1>2, <1>4, <1>5

\* The entries of finished are a worker, the time its runner ended, and whether its ack
\* file was written.
LEMMA EndedFacts ==
  ASSUME TypeOK
  PROVE  /\ \A f \in finished : /\ f = <<f[1], f[2], f[3]>>
                                /\ f[1] \in Worker /\ f[2] \in 2 .. MaxClock
                                /\ f[3] \in BOOLEAN
                                /\ f[1] \in Ended /\ f[1] \in Held
                                /\ f[3] => f[1] \in Acked
         /\ \A w \in Ended : \E f \in finished : f[1] = w
         /\ \A w \in Acked : \E f \in finished : f[1] = w /\ f[3]
         /\ Acked \subseteq Ended /\ Ended \subseteq Held /\ Held \subseteq Worker
         /\ running \subseteq Held
BY DEF TypeOK, Ended, Acked, Held

\* Who is in Ended and Acked, element by element.
LEMMA EndedMembers ==
  /\ \A w : w \in Ended <=> \E f \in finished : f[1] = w
  /\ \A w : w \in Acked <=> \E f \in finished : f[1] = w /\ f[3]
BY DEF Ended, Acked

LEMMA EndedMembersNext ==
  /\ \A w : w \in Ended' <=> \E f \in finished' : f[1] = w
  /\ \A w : w \in Acked' <=> \E f \in finished' : f[1] = w /\ f[3]
BY DEF Ended, Acked

LEMMA StartFacts ==
  ASSUME TypeOK, LinksInv, NEW w \in Worker, StartWorker(w)
  PROVE  /\ up /\ w \in Worker \ (waiting \cup Completed \cup Held \cup Checkpoint)
         /\ running' = running \cup {w}
         /\ Ended' = Ended /\ Acked' = Acked /\ Held' = Held \cup {w}
         /\ stale' = stale \cup {w} \cup Downstream(w)
         /\ written' = [written EXCEPT ![w] = now]
         /\ UNCHANGED <<now, ack, modified, up, request, loaded, completed, waiting,
                        finished>>
<1>1. /\ up /\ w \in Worker \ (waiting \cup Completed \cup Held)
      /\ running' = running \cup {w}
      /\ stale' = stale \cup {w} \cup Downstream(w)
      /\ written' = [written EXCEPT ![w] = now]
      /\ UNCHANGED <<now, ack, modified, up, request, loaded, completed, waiting, finished>>
  BY DEF StartWorker, Available, Held, Ended
<1>2. w \notin Checkpoint
  BY <1>1 DEF LinksInv
<1>3. Ended' = Ended /\ Acked' = Acked /\ Held' = Held \cup {w}
  BY <1>1 DEF Ended, Acked, Held
<1> QED
  BY <1>1, <1>2, <1>3

LEMMA FinishFacts ==
  ASSUME TypeOK, LinksInv, NEW w \in Worker, FinishWorker(w)
  PROVE  /\ up /\ w \in running /\ w \in Held \ Ended
         /\ running' = running \ {w}
         /\ finished' = finished \cup {<<w, now, FALSE>>}
         /\ Ended' = Ended \cup {w} /\ Acked' = Acked /\ Held' = Held
         /\ written' = [written EXCEPT ![w] = now]
         /\ UNCHANGED <<now, ack, modified, stale, up, request, loaded, completed,
                        waiting>>
<1>1. /\ w \in running
      /\ running' = running \ {w}
      /\ finished' = finished \cup {<<w, now, FALSE>>}
      /\ written' = [written EXCEPT ![w] = now]
      /\ UNCHANGED <<now, ack, modified, stale, up, request, loaded, completed, waiting>>
  BY DEF FinishWorker
<1>2. up /\ w \in Held \ Ended
  BY <1>1, EndedFacts DEF LinksInv, Held
<1>a. PICK e : e[1] = w /\ ~e[3] /\ finished' = finished \cup {e}
  <2>1. <<w, now, FALSE>>[1] = w /\ ~<<w, now, FALSE>>[3]
    OBVIOUS
  <2> QED
    BY <1>1, <2>1
<1>3. Ended' = Ended \cup {w}
  <2>1. \A x : x \in Ended' <=> x \in Ended \/ x = w
    BY <1>a, EndedMembers, EndedMembersNext
  <2> QED
    BY <2>1
<1>4. Acked' = Acked
  <2>1. \A x : x \in Acked' <=> x \in Acked
    BY <1>a, EndedMembers, EndedMembersNext
  <2> QED
    BY <2>1
<1>5. Held' = Held
  BY <1>1, <1>3 DEF Held
<1> QED
  BY <1>1, <1>2, <1>3, <1>4, <1>5

\* f is what the thread of w remembers.
AckStep(w, f) ==
  /\ f \in finished /\ f[1] = w /\ ~f[3] /\ f[2] \in 2 .. MaxClock
  /\ finished' = (finished \ {f}) \cup {<<w, f[2], TRUE>>}
  /\ ack' = IF f[2] > loaded[w] /\ f[2] > 1 THEN [ack EXCEPT ![w] = now] ELSE ack
  /\ stale' = stale \ {w}

LEMMA WriteFacts ==
  ASSUME TypeOK, LinksInv, NEW w \in Worker, WriteAck(w)
  PROVE  /\ up /\ w \in Held \ Acked /\ w \in Ended
         /\ \E f : AckStep(w, f)
         /\ Ended' = Ended /\ Acked' = Acked \cup {w} /\ Held' = Held
         /\ UNCHANGED <<now, modified, written, up, request, loaded, completed, waiting,
                        running>>
<1>1. PICK f \in finished :
        /\ f[1] = w
        /\ ~f[3]
        /\ ack' = IF f[2] > loaded[w] /\ f[2] > 1 THEN [ack EXCEPT ![w] = now] ELSE ack
        /\ stale' = stale \ {w}
        /\ finished' = (finished \ {f}) \cup {<<w, f[2], TRUE>>}
        /\ UNCHANGED <<now, modified, written, up, request, loaded, completed, waiting,
                       running>>
  BY DEF WriteAck
<1>2. f = <<w, f[2], f[3]>> /\ f[2] \in 2 .. MaxClock /\ w \in Ended /\ w \in Held
  BY <1>1, EndedFacts
<1>3. AckStep(w, f)
  BY <1>1, <1>2 DEF AckStep
<1>4. up
  BY <1>2 DEF LinksInv
<1>5. w \notin Acked
  <2> SUFFICES ASSUME NEW g \in finished, g[1] = w, g[3] PROVE FALSE
    BY DEF Acked
  <2>1. g = f
    BY <1>1 DEF LinksInv
  <2> QED
    BY <1>1, <2>1
<1>a. PICK e : e[1] = w /\ e[3] /\ finished' = (finished \ {f}) \cup {e}
  <2>1. <<w, f[2], TRUE>>[1] = w /\ <<w, f[2], TRUE>>[3]
    OBVIOUS
  <2> QED
    BY <1>1, <2>1
<1>6. Ended' = Ended
  <2>1. ASSUME NEW x \in Ended' PROVE x \in Ended
    <3>1. PICK g \in finished' : g[1] = x
      BY EndedMembersNext
    <3> QED
      BY <1>1, <1>a, <3>1, EndedMembers
  <2>2. ASSUME NEW x \in Ended PROVE x \in Ended'
    <3>1. PICK g \in finished : g[1] = x
      BY EndedMembers
    <3>2. CASE g = f
      BY <1>1, <1>a, <3>1, <3>2, EndedMembersNext
    <3>3. CASE g # f
      BY <1>a, <3>1, <3>3, EndedMembersNext
    <3> QED
      BY <3>2, <3>3
  <2> QED
    BY <2>1, <2>2
<1>7. Acked' = Acked \cup {w}
  <2>1. ASSUME NEW x \in Acked' PROVE x \in Acked \/ x = w
    <3>1. PICK g \in finished' : g[1] = x /\ g[3]
      BY EndedMembersNext
    <3>2. CASE g = e
      BY <1>a, <3>1, <3>2
    <3>3. CASE g \in finished
      BY <3>1, <3>3, EndedMembers
    <3> QED
      BY <1>a, <3>2, <3>3
  <2>2. ASSUME NEW x \in Acked PROVE x \in Acked'
    <3>1. PICK g \in finished : g[1] = x /\ g[3]
      BY EndedMembers
    <3>2. g \in finished'
      BY <1>1, <1>a, <3>1
    <3> QED
      BY <3>1, <3>2, EndedMembersNext
  <2>3. w \in Acked'
    BY <1>a, EndedMembersNext
  <2> QED
    BY <2>1, <2>2, <2>3
<1>8. Held' = Held
  BY <1>1, <1>6 DEF Held
<1> QED
  BY <1>1, <1>2, <1>3, <1>4, <1>5, <1>6, <1>7, <1>8

LEMMA CompleteFacts ==
  ASSUME TypeOK, LinksInv, NEW w \in Worker, MarkComplete(w)
  PROVE  /\ up /\ w \in Worker \ (waiting \cup Completed)
         /\ w \in Ended /\ w \in Held /\ w \in Acked /\ w \notin Checkpoint
         /\ \E f \in finished : \E K \in SUBSET Worker :
              /\ f[1] = w /\ f[3] /\ f[2] \in 2 .. MaxClock
              /\ finished' = finished \ {f}
              /\ Marked(w, f[2], K)
              /\ completed' \in [Worker -> 0 .. MaxClock]
         /\ Ended' = Ended \ {w} /\ Acked' = Acked \ {w} /\ Held' = Held \ {w}
         /\ UNCHANGED <<now, ack, modified, written, stale, up, request, loaded, running>>
<1>1. PICK f \in finished :
        /\ f[1] = w
        /\ f[3]
        /\ finished' = finished \ {f}
        /\ MarkTaskComplete(w, f[2])
        /\ UNCHANGED <<now, ack, modified, written, stale, up, request, loaded, running>>
  BY DEF MarkComplete, disk
<1>2. f[2] \in 2 .. MaxClock /\ w \in Ended /\ w \in Held /\ w \in Acked
  BY <1>1, EndedFacts
<1>3. up /\ w \notin waiting \cup Completed
  BY <1>2 DEF LinksInv
<1>4. f[2] \in Nat /\ f[2] # 0 /\ f[2] \in 0 .. MaxClock
  BY <1>2, AckAssumption
<1>5. w \notin Checkpoint /\ \E K \in SUBSET Worker : Marked(w, f[2], K)
  BY <1>1, <1>3, <1>4, MarkFacts
<1>6. completed' \in [Worker -> 0 .. MaxClock]
  <2>1. completed' \in [Worker -> {f[2]} \cup {completed[x] : x \in Worker}]
    BY <1>1, <1>3, <1>4, MarkFacts
  <2>2. {f[2]} \cup {completed[x] : x \in Worker} \subseteq 0 .. MaxClock
    BY <1>4 DEF TypeOK
  <2> QED
    BY <2>1, <2>2
<1>7. \A g \in finished : g \in finished' <=> g[1] # w
  BY <1>1 DEF LinksInv
<1>8. Ended' = Ended \ {w}
  BY <1>1, <1>7 DEF Ended
<1>9. Acked' = Acked \ {w}
  BY <1>1, <1>7 DEF Acked
<1>10. Held' = Held \ {w}
  BY <1>1, <1>2, <1>8 DEF Held, LinksInv
<1> QED
  BY <1>1, <1>2, <1>3, <1>5, <1>6, <1>8, <1>9, <1>10

-----------------------------------------------------------------------------
(* The inductive invariant of every process *)

\* What schedule_setup leaves: root checkpoints complete, the others waiting.
StartFact ==
  /\ ~up /\ up'
  /\ Completed' = SetupCompleted /\ waiting' = SetupWaiting
  /\ loaded' = ack /\ running' = {} /\ finished' = {}
  /\ Held' = {} /\ Acked' = {}
  /\ \A k \in SetupCompleted : completed'[k] = now
  /\ request' \in Requests
  /\ UNCHANGED <<now, ack, modified, written, stale>>

LEMMA StartProcessFacts ==
  ASSUME TypeOK, StartProcess
  PROVE  StartFact /\ completed' \in [Worker -> {0, now}]
<1>1. now # 0
  BY DEF TypeOK
<1>2. completed' = [w \in Worker |-> IF w \in SetupCompleted THEN now ELSE 0]
  BY DEF StartProcess
<1>3. SetupCompleted \subseteq Worker
  BY SetupCompletedIsLeast DEF Checkpoint
<1>4. Completed' = SetupCompleted
  <2>1. Completed' = {w \in Worker : completed'[w] # 0}
    BY DEF Completed
  <2>2. \A w \in Worker : completed'[w] # 0 <=> w \in SetupCompleted
    BY <1>1, <1>2
  <2> QED
    BY <1>3, <2>1, <2>2
<1>5. Held' = {} /\ Acked' = {}
  BY DEF StartProcess, Held, Ended, Acked
<1>6. \A k \in SetupCompleted : completed'[k] = now
  BY <1>2, <1>3
<1>7. completed' \in [Worker -> {0, now}]
  BY <1>2
<1> QED
  BY <1>4, <1>5, <1>6, <1>7 DEF StartProcess, disk, StartFact

LEMMA ForgetFacts ==
  ASSUME Forget
  PROVE  /\ ~up' /\ Held' = {} /\ Acked' = {} /\ Completed' = {}
         /\ finished' = {} /\ running' = {} /\ waiting' = {}
         /\ UNCHANGED <<now, ack, modified, written, stale>>
<1>1. \A w \in Worker : completed'[w] = 0
  BY DEF Forget, Zero
<1>2. Completed' = {}
  BY <1>1 DEF Completed
<1> QED
  BY <1>2 DEF Forget, disk, Held, Ended, Acked

\* The steps that leave the process as it is: the clock, and an input file replaced
\* between two processes.
LEMMA QuietFacts ==
  ASSUME UNCHANGED memory
  PROVE  /\ Held' = Held /\ Acked' = Acked /\ Completed' = Completed
         /\ UNCHANGED <<up, request, loaded, completed, waiting, running, finished>>
BY DEF memory, Held, Ended, Acked, Completed

\* The actions, with Crash and Exit as one.
LEMMA NextCases ==
  ASSUME [Next]_vars
  PROVE  \/ UNCHANGED vars
         \/ Tick
         \/ StartProcess
         \/ up /\ Forget /\ (request \in MayCrash \/ Completed = Worker)
         \/ \E w \in Inputs : Modify(w)
         \/ \E w \in Worker : StartWorker(w)
         \/ \E w \in Worker : SkipWorker(w)
         \/ \E w \in Worker : FinishWorker(w)
         \/ \E w \in Worker : WriteAck(w)
         \/ \E w \in Worker : MarkComplete(w)
BY DEF Next, Crash, Exit

LEMMA InitInv == Init => AckIInv
<1> SUFFICES ASSUME Init PROVE AckIInv
  OBVIOUS
<1>1. MaxClock \in Nat /\ MaxClock >= 2
  BY AckAssumption
<1>2. /\ now = 2 /\ up = FALSE /\ finished = {} /\ running = {} /\ waiting = {}
      /\ stale = Worker \ Checkpoint
      /\ ack = Zero /\ written = Zero /\ loaded = Zero /\ completed = Zero
      /\ modified \in [Worker -> {0, 1}]
      /\ request = AskNothing
  BY DEF Init
<1>3. Zero \in [Worker -> {0}] /\ AskNothing \in [force : SUBSET Worker, only : SUBSET Worker]
  BY DEF Zero, AskNothing
<1>4. 0 \in 0 .. MaxClock /\ 1 \in 0 .. MaxClock /\ 2 \in 2 .. MaxClock
  BY <1>1
<1>5. TypeOK
  BY <1>2, <1>3, <1>4 DEF TypeOK
<1>6. Held = {} /\ Acked = {} /\ Ended = {}
  BY <1>2 DEF Held, Ended, Acked
<1>7. LinksInv
  BY <1>2, <1>6 DEF LinksInv
<1>8. TimesInv
  <2>1. \A w \in Worker : ack[w] <= now /\ modified[w] <= now /\ written[w] <= now
    BY <1>2, <1>3
  <2>2. \A k \in Checkpoint : ack[k] = 0 /\ written[k] = 0
    BY <1>2, <1>3 DEF Checkpoint
  <2> QED
    BY <1>2, <2>1, <2>2 DEF TimesInv
<1>9. CurrentInv
  BY <1>2, <1>6 DEF CurrentInv
<1>10. PassedInv
  BY <1>2 DEF PassedInv
<1> QED
  BY <1>5, <1>7, <1>8, <1>9, <1>10 DEF AckIInv

\* The variables keep their types (all of ac_schedule.c's times are clock values, 0 or 1).
LEMMA TypeStep ==
  ASSUME TypeOK, LinksInv, [Next]_vars
  PROVE  TypeOK'
<1>1. CASE UNCHANGED vars
  BY <1>1 DEF TypeOK, vars, disk, memory
<1>2. CASE Tick
  <2>1. now' \in 2 .. MaxClock
    BY <1>2, AckAssumption DEF Tick, TypeOK
  <2> QED
    BY <1>2, <2>1 DEF Tick, TypeOK, disk, memory
<1>3. CASE StartProcess
  <2>1. StartFact /\ completed' \in [Worker -> {0, now}]
    BY <1>3, StartProcessFacts
  <2>2. 0 \in 0 .. MaxClock /\ now \in 0 .. MaxClock
    BY AckAssumption DEF TypeOK
  <2>3. completed' \in [Worker -> 0 .. MaxClock]
    BY <2>1, <2>2
  <2>4. SetupWaiting \subseteq Worker
    BY DEF SetupWaiting
  <2>5. request' \in [force : SUBSET Worker, only : SUBSET Worker]
    BY <2>1, AckAssumption DEF StartFact
  <2>6. up' \in BOOLEAN
    BY <2>1 DEF StartFact
  <2> QED
    BY <2>1, <2>3, <2>4, <2>5, <2>6 DEF TypeOK, StartFact
<1>4. CASE Forget
  <2>1. 0 \in 0 .. MaxClock
    BY AckAssumption
  <2> QED
    BY <1>4, <2>1 DEF Forget, TypeOK, Zero, AskNothing, disk
<1>5. ASSUME NEW w \in Inputs, Modify(w)
      PROVE  TypeOK'
  <2>1. w \in Worker /\ now \in 0 .. MaxClock
    BY AckAssumption DEF TypeOK
  <2>2. modified' \in [Worker -> 0 .. MaxClock]
    BY <1>5, <2>1 DEF Modify, TypeOK
  <2>3. stale' \in SUBSET (Worker \ Checkpoint)
    BY <1>5, <2>1 DEF Modify, TypeOK
  <2> QED
    BY <1>5, <2>2, <2>3 DEF Modify, TypeOK, memory
<1>6. ASSUME NEW w \in Worker, StartWorker(w)
      PROVE  TypeOK'
  <2>1. now \in 0 .. MaxClock
    BY AckAssumption DEF TypeOK
  <2>2. written' \in [Worker -> 0 .. MaxClock]
    BY <1>6, <2>1, StartFacts DEF TypeOK
  <2>3. stale' \in SUBSET (Worker \ Checkpoint)
    BY <1>6, StartFacts DEF TypeOK, Downstream
  <2> QED
    BY <1>6, <2>2, <2>3, StartFacts DEF TypeOK
<1>7. ASSUME NEW w \in Worker, SkipWorker(w)
      PROVE  TypeOK'
  <2>1. waiting' \in SUBSET Worker
    BY <1>7, SkipFacts DEF TypeOK, Marked
  <2> QED
    BY <1>7, <2>1, SkipFacts DEF TypeOK
<1>8. ASSUME NEW w \in Worker, FinishWorker(w)
      PROVE  TypeOK'
  <2>1. now \in 0 .. MaxClock
    BY AckAssumption DEF TypeOK
  <2>2. written' \in [Worker -> 0 .. MaxClock]
    BY <1>8, <2>1, FinishFacts, ZenonT(60) DEF TypeOK
  <2>3. <<w, now, FALSE>> \in Worker \X (2 .. MaxClock) \X BOOLEAN
    BY DEF TypeOK
  <2> QED
    BY <1>8, <2>2, <2>3, FinishFacts, ZenonT(60) DEF TypeOK
<1>9. ASSUME NEW w \in Worker, WriteAck(w)
      PROVE  TypeOK'
  <2>1. PICK f : AckStep(w, f)
    BY <1>9, WriteFacts
  <2>2. now \in 0 .. MaxClock
    BY AckAssumption DEF TypeOK
  <2>3. ack' \in [Worker -> 0 .. MaxClock]
    BY <2>1, <2>2 DEF TypeOK, AckStep
  <2>4. <<w, f[2], TRUE>> \in Worker \X (2 .. MaxClock) \X BOOLEAN
    BY <2>1 DEF AckStep
  <2>5. finished' \in SUBSET (Worker \X (2 .. MaxClock) \X BOOLEAN)
    BY <2>1, <2>4 DEF TypeOK, AckStep
  <2>6. stale' \in SUBSET (Worker \ Checkpoint)
    BY <2>1 DEF TypeOK, AckStep
  <2> QED
    BY <1>9, <2>3, <2>5, <2>6, WriteFacts DEF TypeOK
<1>10. ASSUME NEW w \in Worker, MarkComplete(w)
       PROVE  TypeOK'
  <2>1. waiting' \in SUBSET Worker
    BY <1>10, CompleteFacts DEF TypeOK, Marked
  <2>2. finished' \subseteq finished /\ completed' \in [Worker -> 0 .. MaxClock]
    BY <1>10, CompleteFacts
  <2> QED
    BY <1>10, <2>1, <2>2, CompleteFacts DEF TypeOK
<1> QED
  BY NextCases, <1>1, <1>2, <1>3, <1>4, <1>5, <1>6, <1>7, <1>8, <1>9, <1>10

\* The state links (AcTasks is what makes the last three parts of LinksInv hold).
LEMMA LinksStep ==
  ASSUME TypeOK, LinksInv, [Next]_vars
  PROVE  LinksInv'
<1>1. ASSUME UNCHANGED memory
      PROVE  LinksInv'
  <2>1. Ended' = Ended
    BY <1>1 DEF memory, Ended
  <2> QED
    BY <1>1, <2>1, QuietFacts DEF LinksInv
<1>2. CASE UNCHANGED vars
  BY <1>1, <1>2 DEF vars
<1>3. CASE Tick
  BY <1>1, <1>3 DEF Tick
<1>4. ASSUME NEW w \in Inputs, Modify(w)
      PROVE  LinksInv'
  BY <1>1, <1>4 DEF Modify
<1>5. CASE StartProcess
  <2>1. StartFact
    BY <1>5, StartProcessFacts
  <2>2. Ended' = {}
    BY <2>1 DEF StartFact, Ended
  <2>3. Checkpoint \subseteq SetupWaiting \cup SetupCompleted
    BY SetupCompletedIsLeast DEF SetupWaiting, Checkpoint
  <2>4. \A w \in Worker : w \in SetupWaiting <=> ~IsDependenciesComplete(w, SetupCompleted)
    BY SetupCompletedIsLeast DEF SetupWaiting
  <2>5. SetupWaiting \cap SetupCompleted = {}
    BY DEF SetupWaiting
  <2>6. \A w \in Worker : w \in waiting' <=> ~IsDependenciesComplete(w, Completed')
    BY <2>1, <2>4 DEF StartFact
  <2> QED
    BY <2>1, <2>2, <2>3, <2>5, <2>6 DEF LinksInv, StartFact
<1>6. CASE Forget
  <2>1. Ended' = {}
    BY <1>6 DEF Forget, Ended
  <2> QED
    BY <1>6, <2>1, ForgetFacts DEF LinksInv
<1>7. ASSUME NEW w \in Worker, StartWorker(w)
      PROVE  LinksInv'
  <2>1. Completed' = Completed
    BY <1>7, StartFacts DEF Completed
  <2>2. \A x \in Worker : x \in waiting' <=> ~IsDependenciesComplete(x, Completed')
    BY <1>7, <2>1, StartFacts DEF LinksInv
  <2>3. running' \cap Ended' = {}
    BY <1>7, StartFacts, EndedFacts DEF LinksInv
  <2> QED
    BY <1>7, <2>1, <2>2, <2>3, StartFacts DEF LinksInv
<1>8. ASSUME NEW w \in Worker, SkipWorker(w)
      PROVE  LinksInv'
  <2>1. PICK when \in 1 .. MaxClock, K \in SUBSET Worker : Marked(w, when, K)
    BY <1>8, SkipFacts
  <2>2. Held' = Held /\ Ended' = Ended
    BY <1>8, SkipFacts DEF Held, Ended
  <2>3. Held' \cap Completed' = {}
    BY <1>8, <2>1, <2>2, SkipFacts DEF LinksInv, Marked
  <2>4. waiting' \cap (Completed' \cup Held') = {}
    BY <2>1, <2>2 DEF LinksInv, Marked
  <2>5. SetupCompleted \subseteq Completed'
    BY <1>8, <2>1, SkipFacts DEF LinksInv, Marked
  <2> QED
    BY <1>8, <2>1, <2>2, <2>3, <2>4, <2>5, SkipFacts DEF LinksInv, Marked
<1>9. ASSUME NEW w \in Worker, FinishWorker(w)
      PROVE  LinksInv'
  <2>1. Completed' = Completed
    BY <1>9, FinishFacts DEF Completed
  <2>2. \A x \in Worker : x \in waiting' <=> ~IsDependenciesComplete(x, Completed')
    BY <1>9, <2>1, FinishFacts DEF LinksInv
  <2>3. running' \cap Ended' = {}
    BY <1>9, FinishFacts DEF LinksInv
  <2>4. PICK e : e[1] = w /\ finished' = finished \cup {e}
    <3>1. <<w, now, FALSE>>[1] = w
      OBVIOUS
    <3> QED
      BY <1>9, <3>1, FinishFacts
  <2>5. \A f \in finished : f[1] # w
    BY <1>9, FinishFacts, EndedFacts
  <2>6. \A f, g \in finished' : f[1] = g[1] => f = g
    BY <2>4, <2>5 DEF LinksInv
  <2> QED
    BY <1>9, <2>1, <2>2, <2>3, <2>6, FinishFacts DEF LinksInv
<1>10. ASSUME NEW w \in Worker, WriteAck(w)
       PROVE  LinksInv'
  <2>1. Completed' = Completed
    BY <1>10, WriteFacts DEF Completed
  <2>2. \A x \in Worker : x \in waiting' <=> ~IsDependenciesComplete(x, Completed')
    BY <1>10, <2>1, WriteFacts DEF LinksInv
  <2>3. PICK f : AckStep(w, f)
    BY <1>10, WriteFacts
  <2>4. PICK e : e[1] = w /\ finished' = (finished \ {f}) \cup {e}
    <3>1. <<w, f[2], TRUE>>[1] = w
      OBVIOUS
    <3> QED
      BY <2>3, <3>1 DEF AckStep
  <2>5. \A g \in finished \ {f} : g[1] # w
    BY <2>3 DEF LinksInv, AckStep
  <2>6. \A g, h \in finished' : g[1] = h[1] => g = h
    BY <2>4, <2>5 DEF LinksInv
  <2> QED
    BY <1>10, <2>1, <2>2, <2>6, WriteFacts DEF LinksInv
<1>11. ASSUME NEW w \in Worker, MarkComplete(w)
       PROVE  LinksInv'
  <2>1. PICK f \in finished, K \in SUBSET Worker :
          Marked(w, f[2], K) /\ finished' = finished \ {f}
    BY <1>11, CompleteFacts
  <2>2. Held' \cap Completed' = {}
    BY <1>11, <2>1, CompleteFacts DEF LinksInv, Marked
  <2>3. waiting' \cap (Completed' \cup Held') = {}
    BY <1>11, <2>1, CompleteFacts DEF LinksInv, Marked
  <2>4. SetupCompleted \subseteq Completed'
    BY <1>11, <2>1, CompleteFacts DEF LinksInv, Marked
  <2>5. \A g, h \in finished' : g[1] = h[1] => g = h
    BY <2>1 DEF LinksInv
  <2>6. running' \cap Ended' = {}
    BY <1>11, CompleteFacts DEF LinksInv
  <2> QED
    BY <1>11, <2>1, <2>2, <2>3, <2>4, <2>5, <2>6, CompleteFacts DEF LinksInv, Marked
<1> QED
  BY NextCases, <1>2, <1>3, <1>4, <1>5, <1>6, <1>7, <1>8, <1>9, <1>10, <1>11

\* No reader of a worker whose dependencies are not complete is in a thread, or
\* complete.
LEMMA ReadersWait ==
  ASSUME TypeOK, LinksInv, up, NEW d \in Worker \ Completed, NEW w \in Downstream(d)
  PROVE  w \notin Completed \cup Held
<1>1. w \in Worker \ Checkpoint /\ d \in Upstream[w]
  BY DownstreamIsUpstream
<1>2. w \in waiting
  BY <1>1, UpstreamComplete
<1> QED
  BY <1>2 DEF LinksInv

\* All a thread's worker reads is complete.
LEMMA HeldUpstream ==
  ASSUME TypeOK, LinksInv, NEW w \in Held
  PROVE  up /\ w \in Worker \ (waiting \cup Completed) /\ Upstream[w] \subseteq Completed
<1>1. up /\ w \in Worker \ (waiting \cup Completed)
  BY EndedFacts DEF LinksInv
<1> QED
  BY <1>1, UpstreamComplete

\* A file is only written at the time of the clock, and the files a worker read are not
\* written again in its process.
LEMMA TimesStep ==
  ASSUME TypeOK, LinksInv, TimesInv, [Next]_vars
  PROVE  TimesInv'
<1> DEFINE Behind == \A w \in Worker : ack[w] <= now /\ modified[w] <= now /\ written[w] <= now
           Unread == \A k \in Checkpoint : ack[k] = 0 /\ written[k] = 0
           Own == up => \A w \in Worker : /\ loaded[w] <= ack[w]
                                          /\ w \notin Completed \cup Acked => loaded[w] = ack[w]
           Read(f) == /\ modified[f[1]] <= f[2]
                      /\ \A d \in Upstream[f[1]] : ack[d] <= f[2] /\ written[d] <= f[2]
<1>a. Behind /\ Unread /\ Own /\ \A f \in finished : Read(f)
  BY DEF TimesInv
<1>b. now \in Int /\ \A w \in Worker : ack[w] \in Int /\ modified[w] \in Int
                                       /\ written[w] \in Int /\ loaded[w] \in Int
  BY DEF TypeOK
<1>c. \A f \in finished : Upstream[f[1]] \subseteq Completed /\ f[1] \in Worker
  BY EndedFacts, HeldUpstream
<1>1. CASE UNCHANGED vars
  <2>1. Acked' = Acked /\ Completed' = Completed
    BY <1>1, QuietFacts DEF vars
  <2> QED
    BY <1>1, <2>1 DEF vars, disk, memory, TimesInv
<1>2. CASE Tick
  <2>1. Acked' = Acked /\ Completed' = Completed
    BY <1>2, QuietFacts DEF Tick
  <2>2. now' = now + 1 /\ UNCHANGED <<disk, memory>>
    BY <1>2 DEF Tick
  <2>3. Behind'
    BY <1>a, <1>b, <2>2 DEF disk
  <2> QED
    BY <1>a, <2>1, <2>2, <2>3 DEF disk, memory, TimesInv
<1>3. CASE StartProcess
  <2>1. StartFact
    BY <1>3, StartProcessFacts
  <2>2. Own'
    BY <1>b, <2>1 DEF StartFact
  <2> QED
    BY <1>a, <2>1, <2>2 DEF StartFact, TimesInv
<1>4. CASE Forget
  BY <1>a, <1>4, ForgetFacts DEF TimesInv
<1>5. ASSUME NEW w \in Inputs, Modify(w), ~up
      PROVE  TimesInv'
  <2>1. finished = {}
    BY <1>5, EndedFacts DEF LinksInv
  <2>2. /\ modified' = [modified EXCEPT ![w] = now]
        /\ UNCHANGED <<now, ack, written, up, finished>>
    BY <1>5 DEF Modify, memory
  <2>3. Behind'
    BY <1>a, <1>b, <2>2 DEF TypeOK
  <2> QED
    BY <1>a, <1>5, <2>1, <2>2, <2>3 DEF TimesInv
<1>6. ASSUME NEW w \in Worker, StartWorker(w)
      PROVE  TimesInv'
  <2>1. /\ written' = [written EXCEPT ![w] = now] /\ w \notin Checkpoint
        /\ w \notin Completed
        /\ UNCHANGED <<now, ack, modified, up, loaded, completed, finished>>
        /\ Acked' = Acked
    BY <1>6, StartFacts
  <2>2. Completed' = Completed
    BY <2>1 DEF Completed
  <2>3. \A x \in Worker : written'[x] = IF x = w THEN now ELSE written[x]
    BY <2>1 DEF TypeOK
  <2>4. Behind'
    BY <1>a, <1>b, <2>1, <2>3
  <2>5. Unread'
    BY <1>a, <2>1, <2>3 DEF Checkpoint
  <2>6. \A f \in finished : Read(f)'
    <3>1. ASSUME NEW f \in finished, NEW d \in Upstream[f[1]]
          PROVE  written'[d] = written[d]
      BY <1>c, <2>1, <2>3 DEF Completed
    <3> QED
      BY <1>a, <2>1, <3>1
  <2> QED
    BY <1>a, <2>1, <2>2, <2>4, <2>5, <2>6 DEF TimesInv
<1>7. ASSUME NEW w \in Worker, SkipWorker(w)
      PROVE  TimesInv'
  <2>1. PICK when \in 1 .. MaxClock, K \in SUBSET Worker : Marked(w, when, K)
    BY <1>7, SkipFacts
  <2>2. Completed \subseteq Completed'
    BY <2>1 DEF Marked
  <2>3. UNCHANGED <<now, ack, modified, written, up, loaded, finished>>
    BY <1>7, SkipFacts
  <2>4. Acked' = Acked
    BY <2>3 DEF Acked
  <2>5. Own'
    BY <1>a, <2>2, <2>3, <2>4
  <2> QED
    BY <1>a, <2>3, <2>5 DEF TimesInv
<1>8. ASSUME NEW w \in Worker, FinishWorker(w)
      PROVE  TimesInv'
  <2>1. /\ written' = [written EXCEPT ![w] = now] /\ w \in Held
        /\ finished' = finished \cup {<<w, now, FALSE>>}
        /\ UNCHANGED <<now, ack, modified, up, loaded, completed>>
        /\ Acked' = Acked
    BY <1>8, FinishFacts
  <2>2. Completed' = Completed
    BY <2>1 DEF Completed
  <2>3. \A x \in Worker : written'[x] = IF x = w THEN now ELSE written[x]
    BY <2>1 DEF TypeOK
  <2>4. Behind'
    BY <1>a, <1>b, <2>1, <2>3
  <2>5. w \notin Checkpoint /\ w \notin Completed
    BY <2>1, HeldUpstream DEF LinksInv
  <2>6. Unread'
    BY <1>a, <2>1, <2>3, <2>5 DEF Checkpoint
  <2>7. \A f \in finished : Read(f)'
    <3>1. ASSUME NEW f \in finished, NEW d \in Upstream[f[1]]
          PROVE  written'[d] = written[d]
      BY <1>c, <2>3, <2>5 DEF Completed
    <3> QED
      BY <1>a, <2>1, <3>1
  <2>8. PICK e : e = <<w, now, FALSE>>
    OBVIOUS
  <2>9. Read(e)'
    <3>1. e[1] = w /\ e[2] = now
      BY <2>8
    <3>2. modified'[w] <= now /\ \A d \in Worker : ack'[d] <= now /\ written'[d] <= now
      BY <2>1, <2>4
    <3>3. Upstream[w] \subseteq Worker
      BY UpstreamClosed
    <3> QED
      BY <3>1, <3>2, <3>3
  <2>10. \A f \in finished' : Read(f)'
    BY <2>1, <2>7, <2>8, <2>9
  <2> QED
    BY <1>a, <2>1, <2>2, <2>4, <2>6, <2>10 DEF TimesInv
<1>9. ASSUME NEW w \in Worker, WriteAck(w)
      PROVE  TimesInv'
  <2>1. PICK f : AckStep(w, f)
    BY <1>9, WriteFacts
  <2>2. /\ w \in Held /\ Acked' = Acked \cup {w}
        /\ UNCHANGED <<now, modified, written, up, loaded, completed>>
    BY <1>9, WriteFacts
  <2>3. Completed' = Completed
    BY <2>2 DEF Completed
  <2>4. /\ \A x \in Worker \ {w} : ack'[x] = ack[x]
        /\ ack'[w] \in {ack[w], now}
    BY <2>1 DEF AckStep, TypeOK
  <2>5. w \notin Checkpoint /\ w \notin Completed
    BY <2>2, HeldUpstream DEF LinksInv
  <2>6. Behind'
    BY <1>a, <1>b, <2>2, <2>4
  <2>7. Unread'
    BY <1>a, <2>2, <2>4, <2>5 DEF Checkpoint
  <2>8. Own'
    <3> SUFFICES ASSUME up, NEW x \in Worker
                 PROVE  /\ loaded[x] <= ack'[x]
                        /\ x \notin Completed' \cup Acked' => loaded[x] = ack'[x]
      BY <2>2
    <3>1. CASE x = w
      <4>1. loaded[w] <= ack[w] /\ ack[w] <= now
        BY <1>a
      <4>2. loaded[w] <= ack'[w]
        BY <1>b, <2>4, <4>1
      <4> QED
        BY <2>2, <3>1, <4>2
    <3>2. CASE x # w
      BY <1>a, <2>2, <2>3, <2>4, <3>2
    <3> QED
      BY <3>1, <3>2
  <2>9. ASSUME NEW g \in finished
        PROVE  Read(g)'
    <3>1. \A d \in Upstream[g[1]] : ack'[d] = ack[d]
      BY <1>c, <2>4, <2>5 DEF Completed
    <3> QED
      BY <1>a, <2>2, <3>1
  <2>10. PICK e : e = <<w, f[2], TRUE>>
    OBVIOUS
  <2>11. Read(e)'
    <3>1. e[1] = f[1] /\ e[2] = f[2] /\ f \in finished
      BY <2>1, <2>10 DEF AckStep
    <3> QED
      BY <2>9, <3>1
  <2>12. \A g \in finished' : Read(g)'
    BY <2>1, <2>9, <2>10, <2>11 DEF AckStep
  <2> QED
    BY <2>6, <2>7, <2>8, <2>12 DEF TimesInv
<1>10. ASSUME NEW w \in Worker, MarkComplete(w)
       PROVE  TimesInv'
  <2>1. PICK f \in finished, K \in SUBSET Worker :
          Marked(w, f[2], K) /\ finished' = finished \ {f}
    BY <1>10, CompleteFacts
  <2>2. UNCHANGED <<now, ack, modified, written, up, loaded>> /\ Acked' = Acked \ {w}
    BY <1>10, CompleteFacts
  <2>3. Completed \cup {w} \subseteq Completed'
    BY <2>1 DEF Marked
  <2>4. Own'
    BY <1>a, <2>2, <2>3
  <2> QED
    BY <1>a, <2>1, <2>2, <2>4 DEF TimesInv
<1> QED
  BY NextCases, <1>1, <1>2, <1>3, <1>4, <1>5, <1>6, <1>7, <1>8, <1>9, <1>10 DEF Modify

\* A worker becomes current with an ack file at least as new as all it read, and until
\* then nothing current reads it.
LEMMA CurrentStep ==
  ASSUME TypeOK, LinksInv, TimesInv, CurrentInv, [Next]_vars
  PROVE  CurrentInv'
<1> DEFINE Current(w) ==
             /\ ack[w] # 0
             /\ modified[w] <= ack[w]
             /\ \A d \in Upstream[w] : ack[d] <= ack[w] /\ written[d] <= ack[w]
<1>a. /\ \A w \in Worker \ (stale \cup Checkpoint) : Current(w)
      /\ \A d \in Held : Downstream(d) \subseteq stale
  BY DEF CurrentInv
<1>b. ASSUME UNCHANGED <<ack, modified, written, stale>>, Held' \subseteq Held
      PROVE  CurrentInv'
  BY <1>a, <1>b DEF CurrentInv, Downstream
<1>c. \A w \in Worker : \A d \in Upstream[w] : d \in Worker
  BY UpstreamClosed
<1>d. \A d \in Held : \A w \in Worker \ (stale \cup Checkpoint) : d \notin Upstream[w]
  BY <1>a DEF Downstream
<1>1. CASE UNCHANGED vars
  <2>1. Held' = Held
    BY <1>1, QuietFacts DEF vars
  <2> QED
    BY <1>1, <1>b, <2>1 DEF vars, disk
<1>2. CASE Tick
  <2>1. Held' = Held
    BY <1>2, QuietFacts DEF Tick
  <2> QED
    BY <1>2, <1>b, <2>1 DEF Tick, disk
<1>3. CASE StartProcess
  <2>1. StartFact
    BY <1>3, StartProcessFacts
  <2> QED
    BY <1>b, <2>1 DEF StartFact
<1>4. CASE Forget
  BY <1>4, <1>b, ForgetFacts
<1>5. ASSUME NEW w \in Inputs, Modify(w)
      PROVE  CurrentInv'
  <2>1. /\ UNCHANGED <<ack, written>> /\ Held' = Held
        /\ modified' = [modified EXCEPT ![w] = now]
        /\ stale' = stale \cup ({w} \ Checkpoint)
    BY <1>5, QuietFacts DEF Modify
  <2>2. \A x \in Worker \ {w} : modified'[x] = modified[x]
    BY <2>1 DEF TypeOK
  <2>3. \A x \in Worker \ (stale' \cup Checkpoint) : Current(x)'
    BY <1>a, <2>1, <2>2
  <2> QED
    BY <1>a, <2>1, <2>3 DEF CurrentInv, Downstream
<1>6. ASSUME NEW w \in Worker, StartWorker(w)
      PROVE  CurrentInv'
  <2>1. /\ Held' = Held \cup {w}
        /\ stale' = stale \cup {w} \cup Downstream(w)
        /\ written' = [written EXCEPT ![w] = now]
        /\ UNCHANGED <<ack, modified>>
    BY <1>6, StartFacts
  <2>2. \A x \in Worker \ {w} : written'[x] = written[x]
    BY <2>1 DEF TypeOK
  <2>3. ASSUME NEW x \in Worker \ (stale' \cup Checkpoint)
        PROVE  Current(x)'
    <3>1. Current(x) /\ w \notin Upstream[x]
      BY <1>a, <2>1 DEF Downstream
    <3>2. \A d \in Upstream[x] : written'[d] = written[d]
      BY <1>c, <2>2, <3>1
    <3> QED
      BY <2>1, <3>1, <3>2
  <2>4. \A d \in Held' : Downstream(d) \subseteq stale'
    BY <1>a, <2>1
  <2> QED
    BY <2>3, <2>4 DEF CurrentInv, Downstream
<1>7. ASSUME NEW w \in Worker, SkipWorker(w)
      PROVE  CurrentInv'
  <2>1. UNCHANGED <<ack, modified, written, stale, running, finished>>
    BY <1>7, SkipFacts
  <2>2. Held' = Held
    BY <2>1 DEF Held, Ended
  <2> QED
    BY <1>b, <2>1, <2>2
<1>8. ASSUME NEW w \in Worker, FinishWorker(w)
      PROVE  CurrentInv'
  <2>1. /\ w \in Held /\ Held' = Held
        /\ written' = [written EXCEPT ![w] = now]
        /\ UNCHANGED <<ack, modified, stale>>
    BY <1>8, FinishFacts
  <2>2. \A x \in Worker \ {w} : written'[x] = written[x]
    BY <2>1 DEF TypeOK
  <2>3. ASSUME NEW x \in Worker \ (stale \cup Checkpoint)
        PROVE  Current(x)'
    <3>1. Current(x) /\ w \notin Upstream[x]
      BY <1>a, <1>d, <2>1
    <3>2. \A d \in Upstream[x] : written'[d] = written[d]
      BY <1>c, <2>2, <3>1
    <3> QED
      BY <2>1, <3>1, <3>2
  <2> QED
    BY <1>a, <2>1, <2>3 DEF CurrentInv, Downstream
<1>9. ASSUME NEW w \in Worker, WriteAck(w)
      PROVE  CurrentInv'
  <2>1. PICK f : AckStep(w, f)
    BY <1>9, WriteFacts
  <2>2. /\ up /\ w \in Held \ Acked /\ Held' = Held
        /\ UNCHANGED <<modified, written>>
    BY <1>9, WriteFacts
  <2>3. \A x \in Worker \ {w} : ack'[x] = ack[x]
    BY <2>1 DEF AckStep, TypeOK
  <2>4. ASSUME NEW x \in Worker \ (stale' \cup Checkpoint), x # w
        PROVE  Current(x)'
    <3>1. Current(x) /\ w \notin Upstream[x]
      BY <1>a, <1>d, <2>1, <2>2, <2>4 DEF AckStep
    <3>2. \A d \in Upstream[x] : ack'[d] = ack[d]
      BY <1>c, <2>3, <3>1
    <3> QED
      BY <2>2, <2>3, <2>4, <3>1, <3>2
  <2>5. Current(w)'
    <3>1. w \in Worker \ Completed /\ Upstream[w] \subseteq Completed
      BY <2>2, HeldUpstream
    <3>2. \A d \in Upstream[w] : d \in Worker /\ ack'[d] = ack[d]
      BY <1>c, <2>3, <3>1 DEF Completed
    <3>3. /\ f[2] \in 2 .. MaxClock
          /\ modified[w] <= f[2]
          /\ \A d \in Upstream[w] : ack[d] <= f[2] /\ written[d] <= f[2]
      BY <2>1 DEF AckStep, TimesInv
    <3>4. loaded[w] = ack[w]
      BY <2>2, <3>1 DEF TimesInv
    <3>5. CASE ack'[w] = now
      <4>1. now # 0 /\ modified[w] <= now
            /\ \A d \in Worker : ack[d] <= now /\ written[d] <= now
        BY DEF TimesInv, TypeOK
      <4> QED
        BY <2>2, <3>2, <3>5, <4>1
    <3>6. CASE f[2] <= ack[w] /\ ack'[w] = ack[w]
      <4>1. ack[w] \in Int /\ f[2] \in Int /\ f[2] >= 2 /\ modified[w] \in Int
            /\ \A d \in Worker : ack[d] \in Int /\ written[d] \in Int
        BY <3>3 DEF TypeOK
      <4>2. ack[w] # 0 /\ modified[w] <= ack[w]
        BY <3>3, <3>6, <4>1
      <4>3. \A d \in Upstream[w] : ack[d] <= ack[w] /\ written[d] <= ack[w]
        BY <3>2, <3>3, <3>6, <4>1
      <4> QED
        BY <2>2, <3>2, <3>6, <4>2, <4>3
    <3>7. \/ ack'[w] = now
          \/ f[2] <= ack[w] /\ ack'[w] = ack[w]
      <4>1. f[2] \in Int /\ f[2] > 1 /\ ack[w] \in Int
        BY <3>3 DEF TypeOK
      <4>2. CASE f[2] > loaded[w]
        BY <2>1, <4>1, <4>2 DEF AckStep, TypeOK
      <4>3. CASE ~(f[2] > loaded[w])
        BY <2>1, <3>4, <4>1, <4>3 DEF AckStep
      <4> QED
        BY <4>2, <4>3
    <3> QED
      BY <3>5, <3>6, <3>7
  <2>6. \A d \in Held' : Downstream(d) \subseteq stale'
    <3> SUFFICES ASSUME NEW d \in Held
                 PROVE  w \notin Downstream(d)
      BY <1>a, <2>1, <2>2 DEF AckStep
    <3>1. d \in Worker \ Completed
      BY HeldUpstream
    <3> QED
      BY <2>2, <3>1, ReadersWait
  <2> QED
    BY <2>4, <2>5, <2>6 DEF CurrentInv, Downstream
<1>10. ASSUME NEW w \in Worker, MarkComplete(w)
       PROVE  CurrentInv'
  <2>1. UNCHANGED <<ack, modified, written, stale>> /\ Held' \subseteq Held
    BY <1>10, CompleteFacts
  <2> QED
    BY <1>b, <2>1
<1> QED
  BY NextCases, <1>1, <1>2, <1>3, <1>4, <1>5, <1>6, <1>7, <1>8, <1>9, <1>10

\* mark_task_complete passes on the time of the worker it is called for; a worker that
\* ran has no current reader left when it completes.
LEMMA PassedStep ==
  ASSUME TypeOK, LinksInv, TimesInv, CurrentInv, PassedInv, [Next]_vars
  PROVE  PassedInv'
<1> DEFINE Open == Worker \ (stale \cup Checkpoint \cup Completed \cup Held)
<1>a. ASSUME UNCHANGED <<up, completed>>, stale \subseteq stale', Held \subseteq Held',
             \A w \in Open' : ack'[w] = ack[w]
      PROVE  PassedInv'
  <2>1. Completed' = Completed
    BY <1>a DEF Completed
  <2> QED
    BY <1>a, <2>1 DEF PassedInv
<1>b. \A w \in Worker : \A d \in Upstream[w] : d \in Worker \ Checkpoint
  BY UpstreamClosed
\* The two calls of mark_task_complete.
<1>c. ASSUME NEW w \in Worker \ (waiting \cup Completed), NEW when, NEW K \in SUBSET Worker,
             Marked(w, when, K), up, UNCHANGED <<ack, stale>>, Held \subseteq Held' \cup {w},
             \A x \in Open \ {w} : w \in Upstream[x] => when <= ack[x]
      PROVE  PassedInv'
  <2>1. /\ K \subseteq waiting \cap Checkpoint
        /\ Completed' = Completed \cup {w} \cup K
        /\ \A k \in K : w \in Upstream[k]
        /\ \A x \in Worker : completed'[x] = IF x \in K \cup {w} THEN when ELSE completed[x]
    BY <1>c DEF Marked
  <2>2. \A x \in Completed : x \in Worker /\ completed'[x] = completed[x]
    BY <2>1, <1>c DEF LinksInv, Completed
  <2>3. completed'[w] = when /\ \A k \in K : completed'[k] = when
    BY <2>1
  <2>4. w \notin Checkpoint
    BY <1>c DEF LinksInv
  <2>5. ASSUME NEW k \in (Checkpoint \cap Completed') \ SetupCompleted
        PROVE  \E d \in Upstream[k] \cap Completed' : completed'[k] = completed'[d]
    <3>1. CASE k \in K
      BY <2>1, <2>3, <3>1
    <3>2. CASE k \in Completed
      <4>1. PICK d \in Upstream[k] \cap Completed : completed[k] = completed[d]
        BY <1>c, <2>5, <3>2 DEF PassedInv
      <4> QED
        BY <2>1, <2>2, <3>2, <4>1
    <3> QED
      BY <2>1, <2>4, <2>5, <3>1, <3>2
  <2>6. ASSUME NEW x \in Worker \ (stale' \cup Checkpoint \cup Completed' \cup Held'),
               NEW d \in Upstream[x] \cap Completed'
        PROVE  completed'[d] <= ack'[x]
    <3>1. x \in Open \ {w}
      BY <1>c, <2>1, <2>6
    <3>2. CASE d = w
      BY <1>c, <2>3, <2>6, <3>1, <3>2
    <3>3. CASE d \in Completed
      BY <1>c, <2>2, <2>6, <3>1, <3>3 DEF PassedInv
    <3>4. d \notin K
      BY <1>b, <2>1, <2>6
    <3> QED
      BY <2>1, <2>6, <3>2, <3>3, <3>4
  <2> QED
    BY <2>5, <2>6 DEF PassedInv
<1>1. CASE UNCHANGED vars
  <2>1. Held' = Held
    BY <1>1, QuietFacts DEF vars
  <2> QED
    BY <1>a, <1>1, <2>1 DEF vars, disk, memory
<1>2. CASE Tick
  <2>1. Held' = Held
    BY <1>2, QuietFacts DEF Tick
  <2> QED
    BY <1>a, <1>2, <2>1 DEF Tick, disk, memory
<1>3. CASE StartProcess
  <2>1. StartFact
    BY <1>3, StartProcessFacts
  <2>2. \A w \in Worker : Upstream[w] \cap Completed' = {}
    BY <1>b, <2>1, SetupCompletedIsLeast DEF StartFact
  <2> QED
    BY <2>1, <2>2 DEF StartFact, PassedInv
<1>4. CASE Forget
  BY <1>4, ForgetFacts DEF PassedInv
<1>5. ASSUME NEW w \in Inputs, Modify(w)
      PROVE  PassedInv'
  BY <1>5 DEF Modify, memory, PassedInv
<1>6. ASSUME NEW w \in Worker, StartWorker(w)
      PROVE  PassedInv'
  <2>1. UNCHANGED <<up, completed, ack>> /\ stale \subseteq stale' /\ Held \subseteq Held'
    BY <1>6, StartFacts
  <2> QED
    BY <1>a, <2>1
<1>7. ASSUME NEW w \in Worker, SkipWorker(w)
      PROVE  PassedInv'
  <2>1. PICK when \in 1 .. MaxClock, K \in SUBSET Worker :
          when = (IF loaded[w] # 0 THEN loaded[w] ELSE 1) /\ Marked(w, when, K)
    BY <1>7, SkipFacts
  <2>2. up /\ w \in Worker \ (waiting \cup Completed) /\ UNCHANGED <<ack, stale, running, finished>>
    BY <1>7, SkipFacts
  <2>3. Held' = Held
    BY <2>2 DEF Held, Ended
  <2>4. ASSUME NEW x \in Open \ {w}, w \in Upstream[x]
        PROVE  when <= ack[x]
    <3>1. ack[x] # 0 /\ ack[w] <= ack[x] /\ loaded[w] <= ack[w]
      BY <2>2, <2>4 DEF CurrentInv, TimesInv
    <3>2. ack[x] \in Nat /\ ack[w] \in Nat /\ loaded[w] \in Nat
      BY AckAssumption DEF TypeOK
    <3> QED
      BY <2>1, <3>1, <3>2
  <2> QED
    BY <1>c, <2>1, <2>2, <2>3, <2>4
<1>8. ASSUME NEW w \in Worker, FinishWorker(w)
      PROVE  PassedInv'
  <2>1. UNCHANGED <<up, completed, ack, stale>> /\ Held' = Held
    BY <1>8, FinishFacts
  <2> QED
    BY <1>a, <2>1
<1>9. ASSUME NEW w \in Worker, WriteAck(w)
      PROVE  PassedInv'
  <2>1. PICK f : AckStep(w, f)
    BY <1>9, WriteFacts
  <2>2. UNCHANGED <<up, completed>> /\ Held' = Held /\ w \in Held
    BY <1>9, WriteFacts
  <2>3. Completed' = Completed
    BY <2>2 DEF Completed
  <2>4. \A x \in Worker \ {w} : ack'[x] = ack[x]
    BY <2>1 DEF AckStep, TypeOK
  <2>5. Open' \subseteq Open \ {w}
    BY <2>1, <2>2, <2>3 DEF AckStep
  <2> QED
    BY <2>2, <2>3, <2>4, <2>5 DEF PassedInv
<1>10. ASSUME NEW w \in Worker, MarkComplete(w)
       PROVE  PassedInv'
  <2>1. PICK f \in finished, K \in SUBSET Worker : Marked(w, f[2], K)
    BY <1>10, CompleteFacts
  <2>2. /\ up /\ w \in Worker \ (waiting \cup Completed) /\ w \in Held /\ Held' = Held \ {w}
        /\ UNCHANGED <<ack, stale>>
    BY <1>10, CompleteFacts
  <2>3. ASSUME NEW x \in Open \ {w}, w \in Upstream[x]
        PROVE  FALSE
    BY <2>2, <2>3 DEF CurrentInv, Downstream
  <2> QED
    BY <1>c, <2>1, <2>2, <2>3
<1> QED
  BY NextCases, <1>1, <1>2, <1>3, <1>4, <1>5, <1>6, <1>7, <1>8, <1>9, <1>10

\* For every graph, every command line and every crash: the state links are those of
\* one process, the times on the disk are in order, and what is not marked stale was
\* acknowledged after all it read (schedule_setup, write_ack, mark_task_complete).
THEOREM AckInvariant == Spec => []AckIInv
<1>1. Init => AckIInv
  BY InitInv
<1>2. AckIInv /\ [Next]_vars => AckIInv'
  BY TypeStep, LinksStep, TimesStep, CurrentStep, PassedStep DEF AckIInv
<1> QED
  BY <1>1, <1>2, PTL DEF Spec

\* No acknowledged output looks newer than what it was made from (write_ack after the
\* runner, before the lock).
THEOREM AcksInOrder == Spec => []AckInv
<1>1. AckIInv => AckInv
  BY DEF AckIInv, CurrentInv, AckInv, AcksFollowUpstream
<1> QED
  BY <1>1, AckInvariant, PTL

-----------------------------------------------------------------------------
(* What worker_needs_to_run asks *)

\* It only looks at the workers directly before w.
LEMMA NeedsToRunBefore ==
  ASSUME TypeOK, NEW w \in Worker, NeedsToRun(w)
  PROVE  \/ loaded[w] = 0
         \/ w[1] \in Everytime
         \/ w \in request.force
         \/ \E x \in DirectlyBefore(w) : loaded[x] > loaded[w] \/ completed[x] > loaded[w]
         \/ modified[w] > loaded[w]
         \/ \E d \in InputFrom(w) : written[d] > loaded[w]
<1>1. w[1] \in Tasks /\ loaded[w] \in Nat
  BY WorkerPairs, AckAssumption DEF TypeOK
<1>2. ASSUME NEW d \in Dependencies[w[1]], NEW p \in Partitions(d), AckTime(d, p) > loaded[w]
      PROVE  \E x \in DirectlyBefore(w) : loaded[x] > loaded[w] \/ completed[x] > loaded[w]
  <2>1. d \in Tasks
    BY <1>1, TasksAssumption
  <2>2. <<d, p>> \in Worker /\ <<d, p>>[1] = d
    BY <2>1, WorkerPairs
  <2>3. <<d, p>> \in DirectlyBefore(w)
    BY <2>2 DEF DirectlyBefore
  <2>4. AckTime(d, p) = loaded[<<d, p>>] \/ AckTime(d, p) = completed[<<d, p>>]
    BY DEF AckTime
  <2> QED
    BY <1>2, <2>3, <2>4
<1>3. ASSUME NEW d \in PartialDependencies[w[1]], AckTime(d, w[2]) > loaded[w]
      PROVE  \E x \in DirectlyBefore(w) : loaded[x] > loaded[w] \/ completed[x] > loaded[w]
  <2>1. d \in Tasks
    BY <1>1, TasksAssumption
  <2>2. w[2] \in Partitions(d)
    BY <1>1, <1>3 DEF AckTime
  <2>3. <<d, w[2]>> \in Worker /\ <<d, w[2]>>[1] = d /\ <<d, w[2]>>[2] = w[2]
    BY <2>1, <2>2, WorkerPairs
  <2>4. <<d, w[2]>> \in DirectlyBefore(w)
    BY <2>2, <2>3 DEF DirectlyBefore
  <2>5. AckTime(d, w[2]) = loaded[<<d, w[2]>>] \/ AckTime(d, w[2]) = completed[<<d, w[2]>>]
    BY <2>2 DEF AckTime
  <2> QED
    BY <1>3, <2>4, <2>5
<1> QED
  BY <1>2, <1>3 DEF NeedsToRun

\* Nothing directly before a worker that is not stale has a time after its ack file,
\* but for the root checkpoints.
LEMMA BeforeInTime ==
  ASSUME AckIInv, up, NEW w \in Worker \ (waiting \cup Completed \cup Held \cup Checkpoint),
         w \notin stale, NEW x \in DirectlyBefore(w) \ SetupCompleted
  PROVE  loaded[x] <= ack[w] /\ completed[x] <= ack[w]
<1> USE DEF AckIInv
<1>1. x \in Worker /\ x \in Completed
  <2>1. IsDependenciesComplete(w, Completed)
    BY DEF LinksInv
  <2> QED
    BY <2>1, CompleteBefore DEF Completed
<1>2. loaded[x] <= ack[x] /\ loaded[x] \in Nat /\ ack[x] \in Nat /\ ack[w] \in Nat
  BY <1>1, AckAssumption DEF TimesInv, TypeOK
<1>3. Upstream[w] \subseteq Completed
  BY UpstreamComplete
<1>4. CASE x \in Checkpoint
  <2>1. ack[x] = 0
    BY <1>4 DEF TimesInv
  <2>2. PICK d \in Upstream[x] : completed[x] = completed[d]
    BY <1>1, <1>4 DEF PassedInv
  <2>3. d \in Upstream[w]
    BY <1>4, <2>2, UpstreamClosed
  <2>4. completed[d] <= ack[w]
    BY <1>3, <2>3 DEF PassedInv
  <2> QED
    BY <1>2, <2>1, <2>2, <2>4
<1>5. CASE x \notin Checkpoint
  <2>1. x \in Upstream[w]
    BY <1>5, UpstreamClosed
  <2>2. ack[x] <= ack[w]
    BY <2>1 DEF CurrentInv
  <2>3. completed[x] <= ack[w]
    BY <1>1, <2>1 DEF PassedInv
  <2> QED
    BY <1>2, <2>2, <2>3
<1> QED
  BY <1>4, <1>5

LEMMA NoReason ==
  ASSUME AckIInv, up, NEW w \in Worker \ (waiting \cup Completed \cup Held \cup Checkpoint),
         NeedsToRun(w)
  PROVE  \/ w \in stale \/ w[1] \in Everytime \/ w \in request.force
         \/ DirectlyBefore(w) \cap SetupCompleted # {}
<1> SUFFICES ASSUME w \notin stale, w[1] \notin Everytime, w \notin request.force,
                    DirectlyBefore(w) \cap SetupCompleted = {}
             PROVE  FALSE
  OBVIOUS
<1> USE DEF AckIInv
<1>1. /\ ack[w] # 0 /\ modified[w] <= ack[w]
      /\ \A d \in Upstream[w] : written[d] <= ack[w]
  BY DEF CurrentInv
<1>2. loaded[w] = ack[w]
  BY EndedFacts DEF TimesInv
<1>3. /\ ack[w] \in Nat /\ modified[w] \in Nat
      /\ \A x \in Worker : written[x] \in Nat /\ loaded[x] \in Nat /\ completed[x] \in Nat
  BY AckAssumption DEF TypeOK
<1>4. \A x \in DirectlyBefore(w) : ~(loaded[x] > loaded[w] \/ completed[x] > loaded[w])
  <2> SUFFICES ASSUME NEW x \in DirectlyBefore(w)
               PROVE  ~(loaded[x] > ack[w]) /\ ~(completed[x] > ack[w])
    BY <1>2
  <2>1. loaded[x] <= ack[w] /\ completed[x] <= ack[w] /\ x \in Worker
    BY BeforeInTime DEF DirectlyBefore
  <2> QED
    BY <1>3, <2>1
<1>5. \A x \in InputFrom(w) : ~(written[x] > loaded[w])
  <2> SUFFICES ASSUME NEW x \in InputFrom(w)
               PROVE  ~(written[x] > ack[w])
    BY <1>2
  <2>1. x \in DirectlyBefore(w) /\ x \in Worker
    BY DEF InputFrom, DirectlyBefore
  <2>2. CASE x \in Checkpoint
    BY <1>3, <2>2 DEF TimesInv
  <2>3. CASE x \notin Checkpoint
    BY <1>1, <1>3, <2>1, <2>3, UpstreamClosed
  <2> QED
    BY <2>2, <2>3
<1> QED
  BY <1>1, <1>2, <1>3, <1>4, <1>5, NeedsToRunBefore

\* Nothing runs that is up to date: worker_needs_to_run is not merely true.
THEOREM NothingNeedless == Spec => NoNeedlessRun
<1> DEFINE A == \A w \in Worker : w \in running' \ running =>
                  \/ w \in stale \/ w[1] \in Everytime \/ w \in request.force
                  \/ DirectlyBefore(w) \cap SetupCompleted # {}
<1>1. AckIInv /\ [Next]_vars => A
  <2> SUFFICES ASSUME AckIInv, [Next]_vars, NEW v \in Worker, v \in running' \ running
               PROVE  \/ v \in stale \/ v[1] \in Everytime \/ v \in request.force
                      \/ DirectlyBefore(v) \cap SetupCompleted # {}
    OBVIOUS
  <2> USE DEF AckIInv
  <2>1. ASSUME NEW w \in Worker, StartWorker(w)
        PROVE  v = w
    BY <2>1, StartFacts
  <2>2. PICK w \in Worker : StartWorker(w)
    <3>1. UNCHANGED vars => running' \subseteq running
      BY DEF vars, memory
    <3>2. Tick \/ (\E w \in Inputs : Modify(w)) => running' \subseteq running
      BY DEF Tick, Modify, memory
    <3>3. StartProcess \/ Forget => running' \subseteq running
      BY DEF StartProcess, Forget
    <3>4. \A w \in Worker : SkipWorker(w) \/ FinishWorker(w) \/ WriteAck(w) \/ MarkComplete(w)
                              => running' \subseteq running
      BY DEF SkipWorker, FinishWorker, WriteAck, MarkComplete
    <3> QED
      BY <3>1, <3>2, <3>3, <3>4, NextCases
  <2>3. up /\ v \in Worker \ (waiting \cup Completed \cup Held \cup Checkpoint)
        /\ NeedsToRun(v)
    BY <2>1, <2>2, StartFacts DEF StartWorker
  <2> QED
    BY <2>3, NoReason
<1>2. A => [A]_vars
  OBVIOUS
<1>3. NoNeedlessRun <=> [][A]_vars
  BY DEF NoNeedlessRun
<1> HIDE DEF A
<1> QED
  BY <1>1, <1>2, <1>3, AckInvariant, PTL DEF Spec

-----------------------------------------------------------------------------
(* A complete process leaves nothing stale *)

\* The schedules of which this is shown; the code takes others, too, where it does not
\* hold.  Processes start at least a second apart, none that was forced (-f) is killed, a
\* checkpoint has one worker before it (with more, mark_task_complete passes on only the
\* last one's time), and a partial dependency has the partition that asks for it
\* (worker_needs_to_run looks no further).
KeepsTrack ==
  /\ MinimumGap >= 1
  /\ \A r \in MayCrash : r.force = {}
  /\ \A k \in Checkpoint : \A x, y \in DirectlyBefore(k) : x = y
  /\ \A w \in Worker : \A d \in PartialDependencies[w[1]] : w[2] \in Partitions(d)

\* worker_needs_to_run misses no newer time directly before w.
LEMMA NewerBeforeRuns ==
  ASSUME KeepsTrack, TypeOK, NEW w \in Worker, NEW x \in DirectlyBefore(w),
         completed[x] > loaded[w]
  PROVE  NeedsToRun(w)
<1>1. x \in Worker /\ x = <<x[1], x[2]>> /\ x[2] \in Partitions(x[1])
  BY WorkerPairs DEF DirectlyBefore
<1>2. AckTime(x[1], x[2]) > loaded[w]
  <2>1. loaded[x] \in Int /\ completed[x] \in Int /\ loaded[w] \in Int
    BY <1>1 DEF TypeOK
  <2>2. AckTime(x[1], x[2]) = IF loaded[x] > completed[x] THEN loaded[x] ELSE completed[x]
    BY <1>1 DEF AckTime
  <2> QED
    BY <2>1, <2>2
<1>3. CASE x[1] \in Dependencies[w[1]]
  BY <1>1, <1>2, <1>3 DEF NeedsToRun
<1>4. CASE /\ x[1] \in PartialDependencies[w[1]]
           /\ x[2] = IF w[2] \in Partitions(x[1]) THEN w[2] ELSE 0
  <2>1. x[2] = w[2]
    BY <1>4 DEF KeepsTrack
  <2> QED
    BY <1>2, <1>4, <2>1 DEF NeedsToRun
<1> QED
  BY <1>3, <1>4 DEF DirectlyBefore

\* The time of a worker reaches its readers through any chain of checkpoints.
LEMMA TimesReach ==
  ASSUME AckIInv, FreshInv, up, NEW w \in Worker \ waiting, NEW d \in Upstream[w]
  PROVE  d \in Completed /\ \E x \in DirectlyBefore(w) : completed[x] = completed[d]
<1> USE DEF AckIInv
<1> DEFINE S == {z \in Completed : \E x \in DirectlyBefore(w) : completed[x] = completed[z]}
<1>1. S \in SUBSET Worker
  BY DEF Completed
<1>2. \A z \in Worker \ waiting : DirectlyBefore(z) \subseteq Completed
  BY CompleteBefore DEF LinksInv
<1>3. DirectlyBefore(w) \subseteq S
  BY <1>2
<1>4. ASSUME NEW z \in S \cap Checkpoint
      PROVE  DirectlyBefore(z) \subseteq S
  <2>1. z \in Worker \ waiting
    BY <1>1 DEF LinksInv
  <2>2. \A y \in DirectlyBefore(z) : y \in Completed /\ completed[y] = completed[z]
    BY <1>2, <2>1 DEF FreshInv
  <2> QED
    BY <2>2
<1>5. Upstream[w] \subseteq S
  BY <1>1, <1>3, <1>4, UpstreamLeast
<1> QED
  BY <1>5

\* A worker with a cause is run when its turn comes.
LEMMA CauseRuns ==
  ASSUME KeepsTrack, AckIInv, FreshInv, DoneInv, up, request.only = Worker,
         NEW w \in Worker \ (waiting \cup Completed \cup Held), Cause(w)
  PROVE  NeedsToRun(w)
<1> USE DEF AckIInv
<1>1. loaded[w] = ack[w]
  BY EndedFacts DEF TimesInv
<1>2. CASE ack[w] = 0 \/ w[1] \in Everytime \/ modified[w] > ack[w]
           \/ \E d \in InputFrom(w) : written[d] > ack[w]
  BY <1>1, <1>2 DEF NeedsToRun
<1>3. CASE DirectlyBefore(w) \cap SetupCompleted # {}
  BY <1>3, NewerBeforeRuns DEF FreshInv
<1>4. ASSUME NEW d \in Upstream[w], d \in stale \/ ack[d] > ack[w]
      PROVE  NeedsToRun(w)
  <2>1. PICK x \in DirectlyBefore(w) : completed[x] = completed[d]
    BY TimesReach
  <2>2. d \in Completed \ Checkpoint /\ d \in Worker
    BY TimesReach, UpstreamClosed
  <2>3. ack[d] > ack[w]
    BY <1>4, <2>2 DEF DoneInv
  <2>4. completed[d] > loaded[w]
    <3>1. /\ ack[d] \in Int /\ ack[w] \in Int /\ completed[d] \in Int
          /\ loaded[d] \in Int /\ loaded[w] \in Int
      BY <2>2 DEF TypeOK
    <3>2. \/ loaded[d] = ack[d] /\ loaded[d] <= completed[d]
          \/ loaded[w] < completed[d]
      BY <2>2 DEF FreshInv
    <3> QED
      BY <1>1, <2>3, <3>1, <3>2
  <2> QED
    BY <2>1, <2>4, NewerBeforeRuns
<1> QED
  BY <1>2, <1>3, <1>4 DEF Cause

\* A worker that runs without being forced has a cause that outlives the process.
LEMMA RunHasCause ==
  ASSUME AckIInv, FreshInv, up, NEW w \in Worker \ (waiting \cup Completed \cup Held),
         NeedsToRun(w), w \notin request.force
  PROVE  Cause(w)
<1> USE DEF AckIInv
<1>1. loaded[w] = ack[w]
  BY EndedFacts DEF TimesInv
<1>2. CASE loaded[w] = 0 \/ w[1] \in Everytime \/ modified[w] > loaded[w]
           \/ \E d \in InputFrom(w) : written[d] > loaded[w]
  BY <1>1, <1>2 DEF Cause
<1>3. ASSUME NEW x \in DirectlyBefore(w), loaded[x] > loaded[w] \/ completed[x] > loaded[w],
             x \notin SetupCompleted, ack[w] # 0
      PROVE  \E d \in Upstream[w] : ack[d] > ack[w]
  <2>1. x \in Worker /\ x \in Completed
    BY CompleteBefore DEF LinksInv, Completed
  <2>2. Upstream[w] \subseteq Completed /\ Upstream[w] \subseteq Worker \ Checkpoint
    BY UpstreamComplete, UpstreamClosed
  <2>3. \A d \in Worker : ack[d] \in Nat /\ loaded[d] \in Nat /\ completed[d] \in Nat
    BY AckAssumption DEF TypeOK
  <2>4. \A d \in Worker : loaded[d] <= ack[d]
    BY DEF TimesInv
  <2>5. ASSUME NEW d \in Upstream[w], completed[d] > ack[w]
        PROVE  ack[d] > ack[w]
    <3>1. completed[d] = 1 \/ completed[d] <= ack[d]
      BY <2>2 DEF FreshInv
    <3>2. d \in Worker
      BY <2>2
    <3> QED
      BY <1>3, <2>3, <2>5, <3>1, <3>2
  <2>6. CASE x \in Checkpoint
    <3>1. ack[x] = 0
      BY <2>6 DEF TimesInv
    <3>2. completed[x] > ack[w]
      BY <1>1, <1>3, <2>1, <2>3, <2>4, <3>1
    <3>3. PICK d \in Upstream[x] : completed[x] = completed[d]
      BY <1>3, <2>1, <2>6 DEF PassedInv
    <3>4. d \in Upstream[w]
      BY <2>6, <3>3, UpstreamClosed
    <3> QED
      BY <2>5, <3>2, <3>3, <3>4
  <2>7. CASE x \notin Checkpoint
    <3>1. x \in Upstream[w]
      BY <2>7, UpstreamClosed
    <3>2. CASE loaded[x] > loaded[w]
      BY <1>1, <2>1, <2>3, <2>4, <3>1, <3>2
    <3>3. CASE completed[x] > loaded[w]
      BY <1>1, <2>5, <3>1, <3>3
    <3> QED
      BY <1>3, <3>2, <3>3
  <2> QED
    BY <2>6, <2>7
<1> QED
  BY <1>1, <1>2, <1>3, NeedsToRunBefore DEF Cause

\* A cause stays while files only become newer and workers only become stale.
LEMMA CauseStays ==
  ASSUME TypeOK, TypeOK', ack' = ack, stale \subseteq stale',
         \A w \in Worker : modified[w] <= modified'[w] /\ written[w] <= written'[w],
         NEW w \in Worker, Cause(w)
  PROVE  Cause(w)'
<1>1. \A x \in Worker : /\ modified[x] \in Int /\ written[x] \in Int /\ ack[x] \in Int
                        /\ modified'[x] \in Int /\ written'[x] \in Int
  BY DEF TypeOK
<1>2. InputFrom(w) \subseteq Worker
  BY DEF InputFrom, DirectlyBefore
<1>3. modified[w] > ack[w] => modified'[w] > ack'[w]
  BY <1>1
<1>4. \A d \in InputFrom(w) : written[d] > ack[w] => written'[d] > ack'[w]
  BY <1>1, <1>2
<1>5. \A d \in Upstream[w] : d \in stale \/ ack[d] > ack[w]
                               => d \in stale' \/ ack'[d] > ack'[w]
  OBVIOUS
<1> QED
  BY <1>3, <1>4, <1>5 DEF Cause, DirectlyBefore, InputFrom

LEMMA FreshStep ==
  ASSUME KeepsTrack, AckIInv, AckIInv', FreshInv, [Next]_vars
  PROVE  FreshInv'
<1> USE DEF AckIInv
<1> DEFINE Later == \A w \in Worker :
             /\ loaded[w] < now
             /\ \A f \in finished : loaded[w] < f[2]
             /\ \A k \in SetupCompleted : loaded[w] < completed[k]
           Written == \A f \in finished : f[2] <= now /\ (f[3] => f[2] <= ack[f[1]])
           Time(d) == /\ completed[d] = 1 \/ completed[d] <= ack[d]
                      /\ \/ loaded[d] = ack[d] /\ loaded[d] <= completed[d]
                         \/ \A w \in Worker : loaded[w] < completed[d]
           Through == \A k \in Checkpoint \cap Completed :
                        \A d \in DirectlyBefore(k) : completed[k] = completed[d]
<1>a. up => Later /\ Written /\ (\A d \in Completed \ Checkpoint : Time(d)) /\ Through
  BY DEF FreshInv
<1>b. /\ now \in Int
      /\ \A w \in Worker : loaded[w] \in Nat /\ ack[w] \in Nat /\ completed[w] \in Nat
      /\ \A f \in finished : f[1] \in Worker /\ f[2] \in Nat
  BY AckAssumption, EndedFacts DEF TypeOK
\* The two calls of mark_task_complete.
<1>c. ASSUME NEW w \in Worker \ (waiting \cup Completed), NEW when, NEW K \in SUBSET Worker,
             Marked(w, when, K), up, UNCHANGED <<now, ack, loaded>>, finished' \subseteq finished,
             when = 1 \/ when <= ack[w],
             \/ loaded[w] = ack[w] /\ loaded[w] <= when
             \/ \A x \in Worker : loaded[x] < when
      PROVE  FreshInv'
  <2>1. /\ K \subseteq waiting \cap Checkpoint
        /\ Completed' = Completed \cup {w} \cup K
        /\ \A x \in Worker : completed'[x] = IF x \in K \cup {w} THEN when ELSE completed[x]
    BY <1>c DEF Marked
  <2>2. \A x \in Completed : x \in Worker /\ completed'[x] = completed[x]
    BY <2>1, <1>c DEF LinksInv, Completed
  <2>3. completed'[w] = when /\ \A k \in K : completed'[k] = when
    BY <2>1
  <2>4. Later'
    BY <1>a, <1>c, <2>2 DEF LinksInv
  <2>5. Written'
    BY <1>a, <1>c
  <2>6. ASSUME NEW d \in Completed' \ Checkpoint
        PROVE  Time(d)'
    <3>1. CASE d = w
      BY <1>c, <2>3, <3>1
    <3>2. CASE d \in Completed
      BY <1>a, <1>c, <2>2, <2>6, <3>2
    <3> QED
      BY <2>1, <2>6, <3>1, <3>2
  <2>7. ASSUME NEW k \in Checkpoint \cap Completed', NEW d \in DirectlyBefore(k)
        PROVE  completed'[k] = completed'[d]
    <3>1. k \in Worker /\ d \in Worker
      BY DEF Checkpoint, DirectlyBefore
    <3>2. CASE k \in Completed
      <4>1. d \in Completed
        BY <1>c, <3>1, <3>2, CompleteBefore DEF LinksInv
      <4> QED
        BY <1>a, <1>c, <2>2, <2>7, <3>2, <4>1
    <3>3. CASE k \in K
      <4>1. IsDependenciesComplete(k, Completed')
        BY <2>1, <3>1, <3>3, <1>c DEF Marked
      <4>2. d \in Completed'
        BY <3>1, <4>1, CompleteBefore
      <4>3. ~IsDependenciesComplete(k, Completed)
        BY <2>1, <3>3, <1>c DEF LinksInv
      <4>4. \E x \in DirectlyBefore(k) : x \notin Completed
        BY <3>1, <4>3, CompleteBefore
      <4>5. d \notin Completed
        BY <2>7, <4>4 DEF KeepsTrack
      <4> QED
        BY <2>1, <2>3, <3>3, <4>2, <4>5
    <3>4. k # w
      BY <1>c, <2>7 DEF LinksInv
    <3> QED
      BY <2>1, <2>7, <3>2, <3>3, <3>4
  <2> QED
    BY <2>4, <2>5, <2>6, <2>7 DEF FreshInv
<1>1. CASE UNCHANGED vars
  <2>1. Completed' = Completed
    BY <1>1, QuietFacts DEF vars
  <2> QED
    BY <1>1, <2>1 DEF vars, disk, memory, FreshInv
<1>2. CASE Tick
  <2>1. Completed' = Completed /\ UNCHANGED <<up, loaded, completed, finished, ack>>
    BY <1>2, QuietFacts DEF Tick, disk
  <2>2. now' = now + 1
    BY <1>2 DEF Tick
  <2>3. up => Later'
    BY <1>a, <1>b, <2>1, <2>2
  <2>4. up => Written'
    BY <1>a, <1>b, <2>1, <2>2
  <2> QED
    BY <1>a, <2>1, <2>3, <2>4 DEF FreshInv
<1>3. CASE StartProcess
  <2>1. StartFact
    BY <1>3, StartProcessFacts
  <2>2. \A w \in Worker : ack[w] < now
    <3> SUFFICES ASSUME NEW w \in Worker PROVE ack[w] < now
      OBVIOUS
    <3>1. ack[w] = 0 \/ now >= ack[w] + MinimumGap
      BY <1>3 DEF StartProcess, Rested
    <3>2. MinimumGap \in Nat /\ MinimumGap >= 1 /\ now >= 2
      BY AckAssumption DEF KeepsTrack, TypeOK
    <3> QED
      BY <1>b, <3>1, <3>2
  <2>3. Later' /\ Written'
    BY <2>1, <2>2 DEF StartFact
  <2>4. Completed' \subseteq Checkpoint
    BY <2>1, SetupCompletedIsLeast DEF StartFact
  <2>5. Through'
    <3> SUFFICES ASSUME NEW k \in SetupCompleted, NEW d \in DirectlyBefore(k)
                 PROVE  completed'[k] = completed'[d]
      BY <2>1 DEF StartFact
    <3>1. k \in Worker /\ IsDependenciesComplete(k, SetupCompleted)
      BY SetupCompletedIsLeast DEF Checkpoint
    <3>2. d \in SetupCompleted
      BY <3>1, CompleteBefore
    <3> QED
      BY <2>1, <3>2 DEF StartFact
  <2> QED
    BY <2>3, <2>4, <2>5 DEF FreshInv
<1>4. CASE Forget
  BY <1>4, ForgetFacts DEF FreshInv
<1>5. ASSUME NEW w \in Inputs, Modify(w)
      PROVE  FreshInv'
  BY <1>5 DEF Modify, memory, FreshInv
<1>6. ASSUME NEW w \in Worker, StartWorker(w)
      PROVE  FreshInv'
  <2>1. UNCHANGED <<now, ack, up, loaded, completed, finished>>
    BY <1>6, StartFacts
  <2>2. Completed' = Completed
    BY <2>1 DEF Completed
  <2> QED
    BY <2>1, <2>2 DEF FreshInv
<1>7. ASSUME NEW w \in Worker, SkipWorker(w)
      PROVE  FreshInv'
  <2>1. PICK when \in 1 .. MaxClock, K \in SUBSET Worker :
          when = (IF loaded[w] # 0 THEN loaded[w] ELSE 1) /\ Marked(w, when, K)
    BY <1>7, SkipFacts
  <2>2. /\ up /\ w \in Worker \ (waiting \cup Completed \cup Held)
        /\ UNCHANGED <<now, ack, loaded, finished>>
    BY <1>7, SkipFacts
  <2>3. loaded[w] = ack[w]
    BY <2>2, EndedFacts DEF TimesInv
  <2>4. (when = 1 \/ when <= ack[w]) /\ loaded[w] <= when
    BY <1>b, <2>1, <2>3
  <2> QED
    BY <1>c, <2>1, <2>2, <2>3, <2>4
<1>8. ASSUME NEW w \in Worker, FinishWorker(w)
      PROVE  FreshInv'
  <2>1. up /\ finished' = finished \cup {<<w, now, FALSE>>}
        /\ UNCHANGED <<now, ack, up, loaded, completed>>
    BY <1>8, FinishFacts
  <2>2. Completed' = Completed
    BY <2>1 DEF Completed
  <2>3. PICK e : e[2] = now /\ ~e[3] /\ finished' = finished \cup {e}
    <3>1. <<w, now, FALSE>>[2] = now /\ ~<<w, now, FALSE>>[3]
      OBVIOUS
    <3> QED
      BY <2>1, <3>1
  <2>4. Later'
    BY <1>a, <2>1, <2>3
  <2>5. Written'
    <3> SUFFICES ASSUME NEW g \in finished'
                 PROVE  g[2] <= now /\ (g[3] => g[2] <= ack[g[1]])
      BY <2>1
    <3>1. CASE g = e
      BY <1>b, <2>3, <3>1
    <3>2. CASE g \in finished
      BY <1>a, <2>1, <3>2
    <3> QED
      BY <2>3, <3>1, <3>2
  <2> QED
    BY <1>a, <2>1, <2>2, <2>4, <2>5 DEF FreshInv
<1>9. ASSUME NEW w \in Worker, WriteAck(w)
      PROVE  FreshInv'
  <2>1. PICK f : AckStep(w, f)
    BY <1>9, WriteFacts
  <2>2. up /\ w \in Held /\ w \in Ended /\ UNCHANGED <<now, up, loaded, completed>>
    BY <1>9, WriteFacts
  <2>3. Completed' = Completed
    BY <2>2 DEF Completed
  <2>4. w \notin Completed
    BY <2>2 DEF LinksInv
  <2>5. ack' = [ack EXCEPT ![w] = now] /\ f[2] <= now
    <3>1. f[2] > loaded[w] /\ f[2] > 1 /\ f[2] <= now
      BY <1>a, <1>b, <2>1, <2>2 DEF AckStep
    <3> QED
      BY <2>1, <3>1 DEF AckStep
  <2>6. PICK e : e[1] = w /\ e[2] = f[2] /\ finished' = (finished \ {f}) \cup {e}
    <3>1. <<w, f[2], TRUE>>[1] = w /\ <<w, f[2], TRUE>>[2] = f[2]
      OBVIOUS
    <3> QED
      BY <2>1, <3>1 DEF AckStep
  <2>7. Later'
    BY <1>a, <2>1, <2>2, <2>6 DEF AckStep
  <2>8. ack'[w] = now /\ \A x \in Worker \ {w} : ack'[x] = ack[x]
    BY <2>5 DEF TypeOK
  <2>9. Written'
    <3> SUFFICES ASSUME NEW g \in finished'
                 PROVE  g[2] <= now /\ (g[3] => g[2] <= ack'[g[1]])
      BY <2>2
    <3>1. CASE g = e
      BY <2>5, <2>6, <2>8, <3>1
    <3>2. CASE g \in finished \ {f}
      <4>1. g[1] # w
        BY <2>1, <3>2 DEF LinksInv, AckStep
      <4> QED
        BY <1>a, <1>b, <2>2, <2>8, <3>2, <4>1
    <3> QED
      BY <2>6, <3>1, <3>2
  <2>10. \A d \in Completed' \ Checkpoint : Time(d)'
    BY <1>a, <2>2, <2>3, <2>4, <2>8 DEF Completed
  <2>11. Through'
    BY <1>a, <2>2, <2>3
  <2> QED
    BY <2>7, <2>9, <2>10, <2>11 DEF FreshInv
<1>10. ASSUME NEW w \in Worker, MarkComplete(w)
       PROVE  FreshInv'
  <2>1. PICK f \in finished, K \in SUBSET Worker :
          /\ f[1] = w /\ f[3] /\ finished' = finished \ {f}
          /\ Marked(w, f[2], K)
    BY <1>10, CompleteFacts
  <2>2. /\ up /\ w \in Worker \ (waiting \cup Completed)
        /\ UNCHANGED <<now, ack, loaded>>
    BY <1>10, CompleteFacts
  <2>3. f[2] <= ack[w] /\ \A x \in Worker : loaded[x] < f[2]
    BY <1>a, <2>1, <2>2
  <2> QED
    BY <1>c, <2>1, <2>2, <2>3
<1> QED
  BY NextCases, <1>1, <1>2, <1>3, <1>4, <1>5, <1>6, <1>7, <1>8, <1>9, <1>10

LEMMA DoneStep ==
  ASSUME KeepsTrack, AckIInv, AckIInv', UpToDateIInv, [Next]_vars
  PROVE  DoneInv'
<1> USE DEF AckIInv, UpToDateIInv
<1>1. CASE UNCHANGED vars \/ Tick
  <2>1. UNCHANGED <<memory, stale>>
    BY <1>1 DEF vars, disk, Tick
  <2> QED
    BY <2>1, QuietFacts DEF DoneInv
<1>2. CASE StartProcess
  <2>1. StartFact
    BY <1>2, StartProcessFacts
  <2>2. Completed' \cap stale' = {}
    BY <2>1, SetupCompletedIsLeast DEF StartFact, TypeOK
  <2> QED
    BY <2>1, <2>2 DEF StartFact, DoneInv
<1>3. CASE Forget
  BY <1>3, ForgetFacts DEF DoneInv
<1>4. ASSUME NEW w \in Inputs, Modify(w)
      PROVE  DoneInv'
  <2>1. ~up /\ UNCHANGED memory
    BY <1>4 DEF Modify
  <2>2. Acked = {}
    BY <2>1, EndedFacts DEF LinksInv
  <2> QED
    BY <2>1, <2>2, QuietFacts DEF DoneInv
<1>5. ASSUME NEW w \in Worker, StartWorker(w)
      PROVE  DoneInv'
  <2>1. /\ up /\ w \in Worker \ (Completed \cup Held)
        /\ Acked' = Acked /\ stale' = stale \cup {w} \cup Downstream(w)
        /\ UNCHANGED <<up, request, completed>>
    BY <1>5, StartFacts
  <2>2. Completed' = Completed
    BY <2>1 DEF Completed
  <2>3. \A x \in {w} \cup Downstream(w) : x \notin Completed \cup Held
    BY <2>1, ReadersWait
  <2> QED
    BY <2>1, <2>2, <2>3, EndedFacts DEF DoneInv
<1>6. ASSUME NEW w \in Worker, SkipWorker(w)
      PROVE  DoneInv'
  <2>1. PICK when \in 1 .. MaxClock, K \in SUBSET Worker : Marked(w, when, K)
    BY <1>6, SkipFacts
  <2>2. /\ up /\ w \in Worker \ (waiting \cup Completed \cup Held)
        /\ UNCHANGED <<stale, up, request, finished>>
    BY <1>6, SkipFacts
  <2>3. Acked' = Acked
    BY <2>2 DEF Acked
  <2>4. request.only = Worker => w \notin stale
    <3> SUFFICES ASSUME request.only = Worker, w \in stale PROVE FALSE
      OBVIOUS
    <3>1. ~NeedsToRun(w)
      BY <1>6 DEF SkipWorker, RunPerArgs
    <3>2. Cause(w)
      BY <2>2 DEF CausesInv
    <3> QED
      BY <2>2, <3>1, <3>2, CauseRuns
  <2>5. K \cap stale = {}
    BY <2>1 DEF Marked, TypeOK
  <2> QED
    BY <2>1, <2>2, <2>3, <2>4, <2>5 DEF DoneInv, Marked
<1>7. ASSUME NEW w \in Worker, FinishWorker(w)
      PROVE  DoneInv'
  <2>1. Acked' = Acked /\ UNCHANGED <<stale, up, request, completed>>
    BY <1>7, FinishFacts
  <2>2. Completed' = Completed
    BY <2>1 DEF Completed
  <2> QED
    BY <2>1, <2>2 DEF DoneInv
<1>8. ASSUME NEW w \in Worker, WriteAck(w)
      PROVE  DoneInv'
  <2>1. Acked' = Acked \cup {w} /\ UNCHANGED <<up, request, completed>>
    BY <1>8, WriteFacts
  <2>2. stale' = stale \ {w}
    BY <1>8, WriteFacts DEF AckStep
  <2>3. Completed' = Completed
    BY <2>1 DEF Completed
  <2> QED
    BY <2>1, <2>2, <2>3 DEF DoneInv
<1>9. ASSUME NEW w \in Worker, MarkComplete(w)
      PROVE  DoneInv'
  <2>1. PICK f \in finished, K \in SUBSET Worker : Marked(w, f[2], K)
    BY <1>9, CompleteFacts
  <2>2. w \in Acked /\ Acked' = Acked \ {w} /\ UNCHANGED <<stale, up, request>>
    BY <1>9, CompleteFacts
  <2>3. K \cap stale = {}
    BY <2>1 DEF Marked, TypeOK
  <2> QED
    BY <2>1, <2>2, <2>3 DEF DoneInv, Marked
<1> QED
  BY NextCases, <1>1, <1>2, <1>3, <1>4, <1>5, <1>6, <1>7, <1>8, <1>9

LEMMA CausesStep ==
  ASSUME KeepsTrack, AckIInv, AckIInv', UpToDateIInv, [Next]_vars
  PROVE  CausesInv'
<1> USE DEF AckIInv, UpToDateIInv
<1>a. /\ now \in Int
      /\ \A w \in Worker : /\ modified[w] \in Int /\ modified[w] <= now
                           /\ written[w] \in Int /\ written[w] <= now
                           /\ ack[w] \in Int /\ ack[w] <= now
  BY DEF TypeOK, TimesInv
\* No file gets an older time, no ack file is written, nothing becomes current.
<1>b. ASSUME ack' = ack, stale \subseteq stale',
             \A w \in Worker : modified[w] <= modified'[w] /\ written[w] <= written'[w],
             request' = request, Held \ Acked \subseteq Held' \ Acked',
             \A w \in stale' \ stale :
                \/ Cause(w)'
                \/ request \notin MayCrash /\ w \in Held' \ Acked'
      PROVE  CausesInv'
  <2> SUFFICES ASSUME NEW w \in stale'
               PROVE  Cause(w)' \/ (request \notin MayCrash /\ w \in Held' \ Acked')
    BY <1>b DEF CausesInv
  <2>1. CASE w \in stale
    <3>1. w \in Worker
      BY <2>1 DEF TypeOK
    <3>2. CASE Cause(w)
      BY <1>b, <3>1, <3>2, CauseStays
    <3>3. CASE request \notin MayCrash /\ w \in Held \ Acked
      BY <1>b, <3>3
    <3> QED
      BY <2>1, <3>2, <3>3 DEF CausesInv
  <2>2. CASE w \notin stale
    BY <1>b, <2>2
  <2> QED
    BY <2>1, <2>2
\* Only memory changes, and every stale worker has a cause of its own.
<1>c. ASSUME UNCHANGED <<ack, modified, written, stale>>, \A w \in stale : Cause(w)
      PROVE  CausesInv'
  <2>1. \A w \in stale : Cause(w)'
    BY <1>c DEF Cause, DirectlyBefore, InputFrom
  <2> QED
    BY <1>c, <2>1 DEF CausesInv
<1>1. CASE UNCHANGED vars \/ Tick
  <2>1. UNCHANGED <<memory, ack, modified, written, stale>>
    BY <1>1 DEF vars, disk, Tick
  <2>2. Held' = Held /\ Acked' = Acked /\ request' = request
    BY <2>1, QuietFacts
  <2>3. \A w \in Worker : modified[w] <= modified'[w] /\ written[w] <= written'[w]
    BY <1>a, <2>1
  <2> QED
    BY <1>b, <2>1, <2>2, <2>3
<1>2. CASE StartProcess
  <2>1. StartFact
    BY <1>2, StartProcessFacts
  <2>2. \A w \in stale : Cause(w)
    BY <2>1 DEF CausesInv, StartFact, LinksInv
  <2> QED
    BY <1>c, <2>1, <2>2 DEF StartFact
<1>3. CASE up /\ Forget /\ (request \in MayCrash \/ Completed = Worker)
  <2>1. UNCHANGED <<ack, modified, written, stale>>
    BY <1>3, ForgetFacts
  <2>2. Completed = Worker => Held = {}
    BY EndedFacts DEF LinksInv
  <2>3. \A w \in stale : Cause(w)
    BY <1>3, <2>2 DEF CausesInv
  <2> QED
    BY <1>c, <2>1, <2>3
<1>4. ASSUME NEW w \in Inputs, Modify(w)
      PROVE  CausesInv'
  <2>1. /\ UNCHANGED <<ack, written>> /\ Rested
        /\ modified' = [modified EXCEPT ![w] = now]
        /\ stale' = stale \cup ({w} \ Checkpoint)
        /\ Held' = Held /\ Acked' = Acked /\ request' = request
    BY <1>4, QuietFacts DEF Modify
  <2>2. w \in Worker
    BY AckAssumption
  <2>3. \A x \in Worker : modified'[x] = IF x = w THEN now ELSE modified[x]
    BY <2>1 DEF TypeOK
  <2>4. \A x \in Worker : modified[x] <= modified'[x] /\ written[x] <= written'[x]
    BY <1>a, <2>1, <2>3
  <2>5. ack'[w] = 0 \/ modified'[w] > ack'[w]
    <3>1. ack[w] = 0 \/ now >= ack[w] + MinimumGap
      BY <2>1, <2>2 DEF Rested
    <3>2. MinimumGap \in Nat /\ MinimumGap >= 1
      BY AckAssumption DEF KeepsTrack
    <3> QED
      BY <1>a, <2>1, <2>2, <2>3, <3>1, <3>2
  <2>6. Cause(w)'
    BY <2>5 DEF Cause
  <2>7. \A x \in stale' \ stale : Cause(x)'
    BY <2>1, <2>6
  <2>8. Held \ Acked \subseteq Held' \ Acked' /\ stale \subseteq stale'
    BY <2>1
  <2> QED
    BY <1>b, <2>1, <2>4, <2>7, <2>8
<1>5. ASSUME NEW w \in Worker, StartWorker(w)
      PROVE  CausesInv'
  <2>1. /\ up /\ w \in Worker \ (waiting \cup Completed \cup Held)
        /\ Held' = Held \cup {w} /\ Acked' = Acked
        /\ stale' = stale \cup {w} \cup Downstream(w)
        /\ written' = [written EXCEPT ![w] = now]
        /\ UNCHANGED <<ack, modified, request>>
    BY <1>5, StartFacts
  <2>2. \A x \in Worker : written'[x] = IF x = w THEN now ELSE written[x]
    BY <2>1 DEF TypeOK
  <2>3. \A x \in Worker : modified[x] <= modified'[x] /\ written[x] <= written'[x]
    BY <1>a, <2>1, <2>2
  <2>4. \A x \in Downstream(w) : Cause(x)'
    BY <2>1, DownstreamIsUpstream DEF Cause
  <2>7. Held \ Acked \subseteq Held' \ Acked' /\ stale \subseteq stale'
    BY <2>1
  <2>5. CASE request \in MayCrash
    <3>1. request.force = {}
      BY <2>5 DEF KeepsTrack
    <3>2. Cause(w)
      BY <1>5, <2>1, <3>1, RunHasCause DEF StartWorker
    <3>3. Cause(w)'
      BY <2>1, <2>3, <3>2, CauseStays
    <3>4. \A x \in stale' \ stale : Cause(x)'
      BY <2>1, <2>4, <3>3
    <3> QED
      BY <1>b, <2>1, <2>3, <2>7, <3>4
  <2>6. CASE request \notin MayCrash
    <3>1. w \in Held' \ Acked'
      BY <2>1, EndedFacts
    <3>2. \A x \in stale' \ stale : Cause(x)' \/ x = w
      BY <2>1, <2>4
    <3>3. \A x \in stale' \ stale :
            \/ Cause(x)'
            \/ request \notin MayCrash /\ x \in Held' \ Acked'
      BY <2>6, <3>1, <3>2
    <3> QED
      BY <1>b, <2>1, <2>3, <2>7, <3>3
  <2> QED
    BY <2>5, <2>6
<1>6. ASSUME NEW w \in Worker, SkipWorker(w)
      PROVE  CausesInv'
  <2>1. UNCHANGED <<ack, modified, written, stale, request, running, finished>>
    BY <1>6, SkipFacts
  <2>2. Held' = Held /\ Acked' = Acked
    BY <2>1 DEF Held, Ended, Acked
  <2>3. \A x \in Worker : modified[x] <= modified'[x] /\ written[x] <= written'[x]
    BY <1>a, <2>1
  <2> QED
    BY <1>b, <2>1, <2>2, <2>3
<1>7. ASSUME NEW w \in Worker, FinishWorker(w)
      PROVE  CausesInv'
  <2>1. /\ Held' = Held /\ Acked' = Acked
        /\ written' = [written EXCEPT ![w] = now]
        /\ UNCHANGED <<ack, modified, stale, request>>
    BY <1>7, FinishFacts
  <2>2. \A x \in Worker : written'[x] = IF x = w THEN now ELSE written[x]
    BY <2>1 DEF TypeOK
  <2>3. \A x \in Worker : modified[x] <= modified'[x] /\ written[x] <= written'[x]
    BY <1>a, <2>1, <2>2
  <2> QED
    BY <1>b, <2>1, <2>3
<1>8. ASSUME NEW w \in Worker, WriteAck(w)
      PROVE  CausesInv'
  <2>1. PICK f : AckStep(w, f)
    BY <1>8, WriteFacts
  <2>2. /\ up /\ w \in Held \ Acked /\ Acked' = Acked \cup {w} /\ Held' = Held
        /\ UNCHANGED <<now, modified, written, request>>
    BY <1>8, WriteFacts
  <2>3. ack' = [ack EXCEPT ![w] = now]
    <3>1. f[2] > loaded[w] /\ f[2] \in Int /\ f[2] >= 2
      BY <2>1, <2>2 DEF AckStep, FreshInv
    <3> QED
      BY <2>1, <3>1 DEF AckStep
  <2>4. ack'[w] = now /\ \A x \in Worker \ {w} : ack'[x] = ack[x]
    BY <2>3 DEF TypeOK
  <2>5. stale' = stale \ {w}
    BY <2>1 DEF AckStep
  <2> SUFFICES ASSUME NEW x \in stale', Cause(x)
               PROVE  Cause(x)'
    BY <2>2, <2>5 DEF CausesInv
  <2>6. x \in Worker \ Checkpoint /\ x # w /\ ack'[x] = ack[x]
    BY <2>4, <2>5 DEF TypeOK
  <2>7. CASE \/ ack[x] = 0 \/ x[1] \in Everytime
             \/ DirectlyBefore(x) \cap SetupCompleted # {}
             \/ modified[x] > ack[x]
             \/ \E d \in InputFrom(x) : written[d] > ack[x]
    BY <2>2, <2>6, <2>7 DEF Cause, DirectlyBefore, InputFrom
  <2>8. ASSUME NEW d \in Upstream[x], d \in stale \/ ack[d] > ack[x]
        PROVE  d \in stale' \/ ack'[d] > ack'[x]
    <3>1. d \in Worker
      BY <2>6, UpstreamClosed
    <3>2. CASE d # w
      BY <2>4, <2>5, <2>6, <2>8, <3>1, <3>2
    <3>3. CASE d = w
      <4>1. w \in Worker \ Completed
        BY <2>2, HeldUpstream
      <4>2. x \notin Completed \cup Held
        BY <2>2, <2>6, <3>3, <4>1, DownstreamIsUpstream, ReadersWait
      <4>3. loaded[x] = ack[x]
        BY <2>2, <2>6, <4>2, EndedFacts DEF TimesInv
      <4>4. loaded[x] < now
        BY <2>2, <2>6 DEF FreshInv
      <4> QED
        BY <1>a, <2>4, <2>6, <3>3, <4>3, <4>4
    <3> QED
      BY <3>2, <3>3
  <2> QED
    BY <2>7, <2>8 DEF Cause
<1>9. ASSUME NEW w \in Worker, MarkComplete(w)
      PROVE  CausesInv'
  <2>1. /\ w \in Acked /\ Held' = Held \ {w} /\ Acked' = Acked \ {w}
        /\ UNCHANGED <<ack, modified, written, stale, request>>
    BY <1>9, CompleteFacts
  <2>2. \A x \in Worker : modified[x] <= modified'[x] /\ written[x] <= written'[x]
    BY <1>a, <2>1
  <2> QED
    BY <1>b, <2>1, <2>2
<1> QED
  BY NextCases, <1>1, <1>2, <1>3, <1>4, <1>5, <1>6, <1>7, <1>8, <1>9

\* Every stale worker keeps a cause to run, through crashes, restarts, changed inputs and
\* partial command lines, and what a full process completed is not stale.
LEMMA CausesInvariant == ASSUME KeepsTrack PROVE Spec => []UpToDateIInv
<1>1. Init => UpToDateIInv
  <2> SUFFICES ASSUME Init PROVE UpToDateIInv
    OBVIOUS
  <2>1. ~up /\ ack = Zero /\ stale = Worker \ Checkpoint /\ finished = {}
    BY DEF Init
  <2>2. CausesInv
    BY <2>1 DEF CausesInv, Cause, Zero
  <2>3. Acked = {}
    BY <2>1 DEF Acked
  <2> QED
    BY <2>1, <2>2, <2>3 DEF UpToDateIInv, FreshInv, DoneInv
<1>2. AckIInv /\ AckIInv' /\ UpToDateIInv /\ [Next]_vars => UpToDateIInv'
  BY FreshStep, DoneStep, CausesStep DEF UpToDateIInv
<1> QED
  BY <1>1, <1>2, AckInvariant, PTL DEF Spec

\* When a process that was asked for everything has completed every worker, each output
\* is made from the present output of all it depends on.
LEMMA ProcessBringsUpToDate == ASSUME KeepsTrack PROVE Spec => []UpToDate
<1>1. AckIInv /\ UpToDateIInv => UpToDate
  BY DEF AckIInv, TypeOK, UpToDateIInv, DoneInv, UpToDate
<1> QED
  BY <1>1, AckInvariant, CausesInvariant, PTL
==============================================================================
