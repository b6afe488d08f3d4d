--------------------------- MODULE StackDiagWakeUp ---------------------------
(***************************************************************************)
(* Why the informer of runStackDiagnostics ends when nothing goes wrong    *)
(* with the Pods, for any set of jobs: a deletion is what ends it, each    *)
(* Pod is deleted once, and the sweep that the last one starts misses      *)
(* nothing. Results that break or are empty, lists that fail and           *)
(* interrupts make no difference; the four faults excluded here do, and    *)
(* runs show how.                                                          *)
(***************************************************************************)
EXTENDS StackDiagOutcomes

\* Only this code deletes the Pods, its deletions succeed and are all watched, and
\* no job times out before the informer has listed the Pods.
Unhindered == Faults \cap {"podVanishes", "deleteFails", "tombstone", "earlyTimer"} = {}

Deleting == {"send", "deletePod", "deleteKeystore"}

\* No Pod is deleted before the informer has listed it, and none is watched.
NothingEarly ==
  pc[Main] \in {"schedule", "list"} =>
    \A j \in Jobs : /\ timer[j] \in {"nil", "armed"} /\ done[j] = 0 /\ ~d[j]
                    /\ pc[j] \in {"none", "start", "select"}
                    /\ seen[j] = "none" /\ queue[j] = <<>>
                    /\ j \in registered => pod[j] \in LivePhases

\* The informer runs for the jobs there are, and a sweep reads no others.
SomeRegistered ==
  /\ pc[Main] \in {"list", "inform"} => registered # {}
  /\ unchecked \subseteq registered
  /\ \A j \in registered : pod[j] # "none"

\* A Pod is deleted only after its job was marked done.
DeletedAreDone ==
  /\ \A a \in Actors : pc[a] \in Deleting => d[Target(a)]
  /\ \A j \in Jobs : pod[j] = "gone" => d[j]

\* The handler knows of a deletion, or is still to hear of it.
Told(j) ==
  /\ pod[j] \in LivePhases =>
       seen[j] \in LivePhases /\ \A i \in DOMAIN queue[j] : queue[j][i] # "gone"
  /\ pod[j] \notin LivePhases =>
       seen[j] = "gone" \/ \E i \in DOMAIN queue[j] : queue[j][i] = "gone"
  /\ seen[j] = "gone" => queue[j] = <<>>
DeletionsAreTold == pc[Main] = "inform" => \A j \in registered : Told(j)

NothingFails == CtxDone \/ (podFailed = {} /\ keystoreFailed = {})

\* Once the handler knows of every deletion, the sweep of the last one goes on.
LastSweep ==
  pc[Main] = "inform" /\ (\A j \in registered : seen[j] = "gone") =>
    CtxDone \/ (pc[Handler] = "sweep" /\ allDone)

WakeInv ==
  /\ NothingEarly /\ SomeRegistered /\ DeletedAreDone
  /\ DeletionsAreTold /\ NothingFails /\ LastSweep

-----------------------------------------------------------------------------
\* What becomes of a value of a queue when another is put to its end or taken from
\* its head.
LEMMA AppendKeeps ==
  ASSUME NEW q \in Seq(Notices), NEW x \in Notices, NEW y
  PROVE  (\E i \in DOMAIN Append(q, x) : Append(q, x)[i] = y) <=> x = y \/ \E i \in DOMAIN q : q[i] = y
<1>1. /\ DOMAIN q = 1..Len(q) /\ DOMAIN Append(q, x) = 1..(Len(q) + 1) /\ Len(q) \in Nat
      /\ Append(q, x)[Len(q) + 1] = x
      /\ \A i \in 1..Len(q) : Append(q, x)[i] = q[i]
  OBVIOUS
<1>2. 1..(Len(q) + 1) = 1..Len(q) \cup {Len(q) + 1}
  BY <1>1
<1> QED
  BY <1>1, <1>2

LEMMA TailKeeps ==
  ASSUME NEW q \in Seq(Notices), q # <<>>, NEW y, Head(q) # y
  PROVE  (\E i \in DOMAIN Tail(q) : Tail(q)[i] = y) <=> \E i \in DOMAIN q : q[i] = y
<1>1. ASSUME NEW i \in DOMAIN q, q[i] = y PROVE i - 1 \in DOMAIN Tail(q) /\ Tail(q)[i - 1] = y
  BY <1>1
<1>2. ASSUME NEW i \in DOMAIN Tail(q), Tail(q)[i] = y PROVE i + 1 \in DOMAIN q /\ q[i + 1] = y
  BY <1>2
<1> QED
  BY <1>1, <1>2

-----------------------------------------------------------------------------
(***************************************************************************)
(* The order of listing, marking and deleting.                             *)
(***************************************************************************)

\* Main begins nothing that is done, and goes on only if it began something.
LEMMA MainOrders ==
  ASSUME Unhindered, IndInv, WakeInv, MainStep
  PROVE  NothingEarly' /\ SomeRegistered' /\ DeletedAreDone' /\ NothingFails'
<1> USE ActorsDiffer DEF IndInv, TypeOK, KnownAreRegistered, ScheduleLoop, TargetsRegistered, SchedulingIsOver,
            WakeInv, Unhindered, NothingEarly, SomeRegistered, DeletedAreDone, NothingFails, Deleting, CtxDone,
            Actors, Target, LivePhases, Terminating, NextPhases, jobVars, clusterVars, eventVars, ctxVars,
            resultVars, Goto, Forget, Resume
<1> DEFINE Goal == NothingEarly' /\ SomeRegistered' /\ DeletedAreDone' /\ NothingFails'
<1>1. ASSUME NEW j \in Jobs, Schedule(j) PROVE Goal
  BY <1>1 DEF Schedule
<1>2. ASSUME NEW j \in Jobs, Skip(j) PROVE Goal
  BY <1>2 DEF Skip
<1>3. ASSUME NEW j \in Jobs, AbortSkipsDone(j) PROVE Goal
  BY <1>3 DEF AbortSkipsDone
<1>4. ASSUME NEW j \in Jobs, AbortTerminates(j) PROVE Goal
  BY <1>4 DEF AbortTerminates
<1>5. CASE Bail
  BY <1>5 DEF Bail
<1>6. CASE Scheduled
  BY <1>6 DEF Scheduled
<1>7. CASE ListPods
  BY <1>7 DEF ListPods
<1>8. CASE StopInformer
  BY <1>8 DEF StopInformer
<1>9. CASE Return
  BY <1>9 DEF Return
<1>10. CASE Exit
  BY <1>10 DEF Exit
<1> QED
  BY <1>1, <1>2, <1>3, <1>4, <1>5, <1>6, <1>7, <1>8, <1>9, <1>10
     DEF MainStep

\* Handler does not run before the Pods are listed.
LEMMA HandlerOrders ==
  ASSUME Unhindered, IndInv, WakeInv, HandlerStep
  PROVE  NothingEarly' /\ SomeRegistered' /\ DeletedAreDone' /\ NothingFails'
<1> USE ActorsDiffer DEF IndInv, TypeOK, KnownAreRegistered, ScheduleLoop, TargetsRegistered, SchedulingIsOver,
            WakeInv, Unhindered, NothingEarly, SomeRegistered, DeletedAreDone, NothingFails, Deleting, CtxDone,
            Actors, Target, LivePhases, Terminating, NextPhases, jobVars, clusterVars, eventVars, ctxVars,
            resultVars, Goto, Forget, Resume
<1> DEFINE Goal == NothingEarly' /\ SomeRegistered' /\ DeletedAreDone' /\ NothingFails'
<1>1. CASE UpdateIgnored
  BY <1>1 DEF UpdateIgnored
<1>2. CASE UpdateTerminates
  BY <1>2 DEF UpdateTerminates
<1>3. CASE UpdateExtracts
  BY <1>3 DEF UpdateExtracts
<1>4. CASE SweepEnds
  BY <1>4 DEF SweepEnds
<1>5. ASSUME NEW j \in Jobs, OnUpdate(j) PROVE Goal
  BY <1>5 DEF OnUpdate, BeginUpdate
<1>6. ASSUME NEW j \in Jobs, OnResync(j) PROVE Goal
  BY <1>6 DEF OnResync, BeginUpdate
<1>7. ASSUME NEW j \in Jobs, ExtractOk(j) PROVE Goal
  BY <1>7 DEF ExtractOk, CompleteJob, ExtractEnds
<1>8. ASSUME NEW j \in Jobs, ExtractCut(j) PROVE Goal
  BY <1>8 DEF ExtractCut, CompleteJob, ExtractEnds
<1>9. ASSUME NEW j \in Jobs, ExtractFails(j) PROVE Goal
  BY <1>9 DEF ExtractFails, ExtractEnds
<1>10. ASSUME NEW j \in Jobs, ExtractNothing(j) PROVE Goal
  BY <1>10 DEF ExtractNothing, CompleteJob, ExtractEnds
<1>11. ASSUME NEW j \in Jobs, OnDelete(j) PROVE Goal
  BY <1>11 DEF OnDelete
<1>12. ASSUME NEW j \in Jobs, OnTombstone(j) PROVE Goal
  BY <1>12 DEF OnTombstone
<1>13. ASSUME NEW j \in Jobs, Sweep(j) PROVE Goal
  BY <1>13 DEF Sweep
<1> QED
  BY <1>1, <1>2, <1>3, <1>4, <1>5, <1>6, <1>7, <1>8, <1>9, <1>10, <1>11, <1>12, <1>13
     DEF HandlerStep, Update, Extract

\* No timer fires and no Pod vanishes before that.
LEMMA OtherOrders ==
  ASSUME Unhindered, IndInv, WakeInv, OtherStep
  PROVE  NothingEarly' /\ SomeRegistered' /\ DeletedAreDone' /\ NothingFails'
<1> USE ActorsDiffer DEF IndInv, TypeOK, KnownAreRegistered, ScheduleLoop, TargetsRegistered, SchedulingIsOver,
            WakeInv, Unhindered, NothingEarly, SomeRegistered, DeletedAreDone, NothingFails, Deleting, CtxDone,
            Actors, Target, LivePhases, Terminating, NextPhases, jobVars, clusterVars, eventVars, ctxVars,
            resultVars, Goto, Forget, Resume
<1> DEFINE Goal == NothingEarly' /\ SomeRegistered' /\ DeletedAreDone' /\ NothingFails'
<1>1. ASSUME NEW j \in Jobs, StartTimer(j) PROVE Goal
  BY <1>1 DEF StartTimer
<1>2. ASSUME NEW j \in Jobs, Timeout(j) PROVE Goal
  BY <1>2 DEF Timeout
<1>3. ASSUME NEW j \in Jobs, Released(j) PROVE Goal
  BY <1>3 DEF Released
<1>4. ASSUME NEW j \in Jobs, TimerFires(j) PROVE Goal
  BY <1>4 DEF TimerFires
<1>5. ASSUME NEW j \in Jobs, PodProgress(j) PROVE Goal
  BY <1>5 DEF PodProgress, Notify
<1>6. ASSUME NEW j \in Jobs, PodVanishes(j) PROVE Goal
  BY <1>6 DEF PodVanishes
<1>7. CASE Interrupt
  BY <1>7 DEF Interrupt
<1> QED
  BY <1>1, <1>2, <1>3, <1>4, <1>5, <1>6, <1>7
     DEF OtherStep, TimerStep

\* A job is marked done before its Pod is deleted, which does not fail.
LEMMA TerminateOrders ==
  ASSUME Unhindered, IndInv, WakeInv, NEW a \in Actors, TerminateJob(a)
  PROVE  NothingEarly' /\ SomeRegistered' /\ DeletedAreDone' /\ NothingFails'
<1> USE ActorsDiffer DEF IndInv, TypeOK, KnownAreRegistered, ScheduleLoop, TargetsRegistered, SchedulingIsOver,
            WakeInv, Unhindered, NothingEarly, SomeRegistered, DeletedAreDone, NothingFails, Deleting, CtxDone,
            Actors, Target, LivePhases, Terminating, NextPhases, jobVars, clusterVars, eventVars, ctxVars,
            resultVars, Goto, Forget, Resume
<1> DEFINE Goal == NothingEarly' /\ SomeRegistered' /\ DeletedAreDone' /\ NothingFails'
<1>1. CASE MarkDone(a)
  BY <1>1 DEF MarkDone
<1>2. CASE SendDone(a)
  BY <1>2 DEF SendDone
<1>3. CASE DeletePod(a)
  BY <1>3 DEF DeletePod
<1>4. CASE DeletePodFails(a)
  BY <1>4 DEF DeletePodFails, CtxAlive
<1>5. CASE DeleteKeystore(a)
  BY <1>5 DEF DeleteKeystore
<1>6. CASE DeleteKeystoreFails(a)
  BY <1>6 DEF DeleteKeystoreFails, CtxAlive
<1> QED
  BY <1>1, <1>2, <1>3, <1>4, <1>5, <1>6
     DEF TerminateJob

-----------------------------------------------------------------------------
(***************************************************************************)
(* What the handler is told.                                               *)
(***************************************************************************)

\* The first list finds every Pod there.
LEMMA ListPodsTells ==
  ASSUME IndInv, WakeInv, ListPods
  PROVE  DeletionsAreTold' /\ LastSweep'
<1>1. /\ pc[Main] = "list" /\ UNCHANGED <<registered, pod, queue>>
      /\ seen' = [j \in Jobs |-> IF pod[j] \in LivePhases THEN pod[j] ELSE "none"]
  BY DEF ListPods, clusterVars
<1>2. registered # {} /\ registered \subseteq Jobs
  BY <1>1 DEF IndInv, TypeOK, WakeInv, SomeRegistered
<1>3. \A j \in registered : pod[j] \in LivePhases /\ queue[j] = <<>>
  BY <1>1, <1>2 DEF WakeInv, NothingEarly
<1>4. "gone" \notin LivePhases
  BY DEF LivePhases
<1>5. \A j \in registered : seen'[j] \in LivePhases /\ seen'[j] # "gone"
  BY <1>1, <1>2, <1>3, <1>4
<1>6. \A j \in registered : Told(j)'
  BY <1>1, <1>3, <1>5 DEF Told
<1>7. DeletionsAreTold'
  BY <1>1, <1>6 DEF DeletionsAreTold
<1>8. LastSweep'
  BY <1>1, <1>2, <1>5 DEF LastSweep
<1> QED
  BY <1>7, <1>8

\* An update is taken from the queue, the deletion after it stays there.
LEMMA OnUpdateTells ==
  ASSUME IndInv, WakeInv, NEW j \in Jobs, OnUpdate(j)
  PROVE  DeletionsAreTold' /\ LastSweep'
<1> DEFINE q == queue[j]
<1>1. /\ q \in Seq(Notices) /\ q # <<>> /\ Head(q) # "gone"
      /\ seen' = [seen EXCEPT ![j] = Head(q)] /\ queue' = [queue EXCEPT ![j] = Tail(q)]
      /\ seen \in [Jobs -> Phases] /\ queue \in [Jobs -> Seq(Notices)]
      /\ pc[Handler] = "idle" /\ UNCHANGED <<pod, registered>>
  BY DEF IndInv, TypeOK, OnUpdate, BeginUpdate, clusterVars
<1>2. pc[Main] = "inform" /\ pc'[Main] = "inform"
  BY ActorsDiffer DEF IndInv, TypeOK, SchedulingIsOver, OnUpdate, BeginUpdate, Goto, Actors
<1>3. j \in registered /\ registered \subseteq Jobs
  BY <1>1 DEF IndInv, TypeOK, KnownAreRegistered
<1>4. \A k \in registered : Told(k)
  BY <1>2 DEF WakeInv, DeletionsAreTold
<1>5. Told(j)'
  <2>1. Head(q) \in LivePhases
    <3>1. Head(q) \in Notices
      BY <1>1
    <3> QED
      BY <1>1, <3>1 DEF Notices
  <2>2. (\E i \in DOMAIN Tail(q) : Tail(q)[i] = "gone") <=> \E i \in DOMAIN q : q[i] = "gone"
    BY <1>1, TailKeeps
  <2>3. seen'[j] = Head(q) /\ queue'[j] = Tail(q) /\ pod'[j] = pod[j]
    BY <1>1
  <2>4. Told(j)
    BY <1>3, <1>4
  <2> QED
    BY <1>1, <2>1, <2>2, <2>3, <2>4 DEF Told
<1>6. \A k \in registered : Told(k)'
  BY <1>1, <1>3, <1>4, <1>5 DEF Told
<1>7. DeletionsAreTold'
  BY <1>1, <1>6 DEF DeletionsAreTold
<1>8. seen'[j] # "gone"
  BY <1>1
<1>9. LastSweep'
  BY <1>1, <1>3, <1>8 DEF LastSweep
<1> QED
  BY <1>7, <1>9

\* A job whose deletion the handler knows of is done, so that the sweep goes on.
LEMMA SweepTells ==
  ASSUME IndInv, WakeInv, NEW k \in Jobs, Sweep(k)
  PROVE  DeletionsAreTold' /\ LastSweep'
<1>1. /\ pc[Handler] = "sweep" /\ k \in unchecked /\ allDone' = (allDone /\ d[k])
      /\ UNCHANGED <<pc, registered, pod, seen, queue, interrupted, cancelled>>
  BY DEF Sweep, clusterVars, ctxVars
<1>2. pc[Main] = "inform"
  BY <1>1 DEF IndInv, SchedulingIsOver
<1>3. k \in registered
  BY <1>1 DEF WakeInv, SomeRegistered
<1>4. seen[k] = "gone" => d[k]
  <2>1. seen[k] = "gone" => pod[k] \notin LivePhases
    BY <1>2, <1>3 DEF WakeInv, DeletionsAreTold, Told, LivePhases
  <2>2. pod[k] \in Phases /\ pod[k] # "none"
    BY <1>3 DEF IndInv, TypeOK, WakeInv, SomeRegistered
  <2> QED
    BY <2>1, <2>2 DEF Phases, WakeInv, DeletedAreDone
<1>5. DeletionsAreTold'
  BY <1>1 DEF WakeInv, DeletionsAreTold, Told
<1>6. LastSweep'
  BY <1>1, <1>3, <1>4 DEF WakeInv, LastSweep, CtxDone
<1> QED
  BY <1>5, <1>6

\* The deletion of a Pod that is there is put in the queue.
LEMMA DeletePodTells ==
  ASSUME IndInv, WakeInv, NEW a \in Actors, DeletePod(a)
  PROVE  DeletionsAreTold' /\ LastSweep'
<1>1. PICK j \in Jobs : j = Target(a)
  BY DEF DeletePod, IndInv, TypeOK, TargetsRegistered, Actors, Target, Terminating
<1> DEFINE q == queue[j]
<1>2. /\ pod' = [pod EXCEPT ![j] = "gone"]
      /\ UNCHANGED <<registered, seen, allDone, interrupted, cancelled>>
      /\ pc' = [pc EXCEPT ![a] = "deleteKeystore"] /\ pc[a] = "deletePod"
      /\ queue' = IF pod[j] \in LivePhases /\ seen[j] \in LivePhases
                    THEN [queue EXCEPT ![j] = Append(@, "gone")] ELSE queue
  BY <1>1 DEF DeletePod, Goto, Notify, ctxVars
<1>3. /\ pod \in [Jobs -> Phases] /\ queue \in [Jobs -> Seq(Notices)] /\ q \in Seq(Notices)
      /\ "gone" \in Notices /\ "gone" \notin LivePhases /\ registered \subseteq Jobs
  BY <1>1 DEF IndInv, TypeOK, Notices, LivePhases
<1>4. pc'[Main] = "inform" => pc[Main] = "inform" /\ \A k \in registered : Told(k)
  BY <1>2 DEF IndInv, TypeOK, WakeInv, DeletionsAreTold, Actors
<1>5. Told(j) => Told(j)'
  <2>1. \E i \in DOMAIN Append(q, "gone") : Append(q, "gone")[i] = "gone"
    <3>1. q \in Seq(Notices) /\ "gone" \in Notices
      BY <1>3
    <3> HIDE DEF q
    <3> QED
      BY <3>1, AppendKeeps
  <2>2. pod'[j] = "gone" /\ seen'[j] = seen[j]
    BY <1>1, <1>2, <1>3
  <2>3. queue'[j] = IF pod[j] \in LivePhases /\ seen[j] \in LivePhases THEN Append(q, "gone") ELSE q
    BY <1>1, <1>2, <1>3
  <2> QED
    BY <1>3, <2>1, <2>2, <2>3 DEF Told
<1>6. \A k \in Jobs \ {j} : Told(k) => Told(k)'
  BY <1>1, <1>2, <1>3 DEF Told
<1>7. DeletionsAreTold'
  BY <1>2, <1>3, <1>4, <1>5, <1>6 DEF DeletionsAreTold
<1>8. pc[Handler] = "sweep" => pc'[Handler] = "sweep"
  BY <1>2 DEF IndInv, TypeOK, Actors
<1>9. LastSweep'
  BY <1>2, <1>4, <1>8 DEF WakeInv, LastSweep, CtxDone
<1> QED
  BY <1>7, <1>9

\* Until the informer is stopped Main leaves its cache alone.
LEMMA MainTells ==
  ASSUME Unhindered, IndInv, WakeInv, MainStep
  PROVE  DeletionsAreTold' /\ LastSweep'
<1> USE ActorsDiffer DEF IndInv, TypeOK, KnownAreRegistered, TargetsRegistered, SchedulingIsOver, WakeInv,
            Unhindered, NothingEarly, SomeRegistered, DeletedAreDone, DeletionsAreTold, Told, LastSweep, CtxDone,
            Actors, Target, LivePhases, Terminating, NextPhases, jobVars, clusterVars, eventVars, ctxVars,
            resultVars, Goto, Forget, Resume, Notify
<1> DEFINE Goal == DeletionsAreTold' /\ LastSweep'
<1>1. ASSUME NEW j \in Jobs, Schedule(j) PROVE Goal
  BY <1>1 DEF Schedule
<1>2. ASSUME NEW j \in Jobs, Skip(j) PROVE Goal
  BY <1>2 DEF Skip
<1>3. ASSUME NEW j \in Jobs, AbortSkipsDone(j) PROVE Goal
  BY <1>3 DEF AbortSkipsDone
<1>4. ASSUME NEW j \in Jobs, AbortTerminates(j) PROVE Goal
  BY <1>4 DEF AbortTerminates
<1>5. CASE Bail
  BY <1>5 DEF Bail
<1>6. CASE Scheduled
  BY <1>6 DEF Scheduled
<1>7. CASE ListPods
  BY <1>7, ListPodsTells
<1>8. CASE StopInformer
  BY <1>8 DEF StopInformer
<1>9. CASE Return
  BY <1>9 DEF Return
<1>10. CASE Exit
  BY <1>10 DEF Exit
<1> QED
  BY <1>1, <1>2, <1>3, <1>4, <1>5, <1>6, <1>7, <1>8, <1>9, <1>10
     DEF MainStep

\* Handler forgets no deletion that it was told of.
LEMMA HandlerTells ==
  ASSUME Unhindered, IndInv, WakeInv, HandlerStep
  PROVE  DeletionsAreTold' /\ LastSweep'
<1> USE ActorsDiffer DEF IndInv, TypeOK, KnownAreRegistered, TargetsRegistered, SchedulingIsOver, WakeInv,
            Unhindered, NothingEarly, SomeRegistered, DeletedAreDone, DeletionsAreTold, Told, LastSweep, CtxDone,
            Actors, Target, LivePhases, Terminating, NextPhases, jobVars, clusterVars, eventVars, ctxVars,
            resultVars, Goto, Forget, Resume, Notify
<1> DEFINE Goal == DeletionsAreTold' /\ LastSweep'
<1>1. CASE UpdateIgnored
  BY <1>1 DEF UpdateIgnored
<1>2. CASE UpdateTerminates
  BY <1>2 DEF UpdateTerminates
<1>3. CASE UpdateExtracts
  BY <1>3 DEF UpdateExtracts
<1>4. CASE SweepEnds
  BY <1>4 DEF SweepEnds
<1>5. ASSUME NEW j \in Jobs, OnUpdate(j) PROVE Goal
  BY <1>5, OnUpdateTells
<1>6. ASSUME NEW j \in Jobs, OnResync(j) PROVE Goal
  BY <1>6 DEF OnResync, BeginUpdate
<1>7. ASSUME NEW j \in Jobs, ExtractOk(j) PROVE Goal
  BY <1>7 DEF ExtractOk, CompleteJob, ExtractEnds
<1>8. ASSUME NEW j \in Jobs, ExtractCut(j) PROVE Goal
  BY <1>8 DEF ExtractCut, CompleteJob, ExtractEnds
<1>9. ASSUME NEW j \in Jobs, ExtractFails(j) PROVE Goal
  BY <1>9 DEF ExtractFails, ExtractEnds
<1>10. ASSUME NEW j \in Jobs, ExtractNothing(j) PROVE Goal
  BY <1>10 DEF ExtractNothing, CompleteJob, ExtractEnds
<1>11. ASSUME NEW j \in Jobs, OnDelete(j) PROVE Goal
  BY <1>11 DEF OnDelete
<1>12. ASSUME NEW j \in Jobs, OnTombstone(j) PROVE Goal
  BY <1>12 DEF OnTombstone
<1>13. ASSUME NEW j \in Jobs, Sweep(j) PROVE Goal
  BY <1>13, SweepTells
<1> QED
  BY <1>1, <1>2, <1>3, <1>4, <1>5, <1>6, <1>7, <1>8, <1>9, <1>10, <1>11, <1>12, <1>13
     DEF HandlerStep, Update, Extract

\* Pods that are watched go on, and the handler hears of it.
LEMMA OtherTells ==
  ASSUME Unhindered, IndInv, WakeInv, OtherStep
  PROVE  DeletionsAreTold' /\ LastSweep'
<1> USE ActorsDiffer DEF IndInv, TypeOK, KnownAreRegistered, TargetsRegistered, SchedulingIsOver, WakeInv,
            Unhindered, NothingEarly, SomeRegistered, DeletedAreDone, DeletionsAreTold, Told, LastSweep, CtxDone,
            Actors, Target, LivePhases, Terminating, NextPhases, jobVars, clusterVars, eventVars, ctxVars,
            resultVars, Goto, Forget, Resume, Notify
<1> DEFINE Goal == DeletionsAreTold' /\ LastSweep'
<1>1. ASSUME NEW j \in Jobs, StartTimer(j) PROVE Goal
  BY <1>1 DEF StartTimer
<1>2. ASSUME NEW j \in Jobs, Timeout(j) PROVE Goal
  BY <1>2 DEF Timeout
<1>3. ASSUME NEW j \in Jobs, Released(j) PROVE Goal
  BY <1>3 DEF Released
<1>4. ASSUME NEW j \in Jobs, TimerFires(j) PROVE Goal
  BY <1>4 DEF TimerFires
<1>5. ASSUME NEW j \in Jobs, PodProgress(j) PROVE Goal
  BY <1>5 DEF PodProgress
<1>6. ASSUME NEW j \in Jobs, PodVanishes(j) PROVE Goal
  BY <1>6 DEF PodVanishes
<1>7. CASE Interrupt
  BY <1>7 DEF Interrupt
<1> QED
  BY <1>1, <1>2, <1>3, <1>4, <1>5, <1>6, <1>7
     DEF OtherStep, TimerStep

\* Of all that terminateJob does only the deletion of the Pod is noticed.
LEMMA TerminateTells ==
  ASSUME Unhindered, IndInv, WakeInv, NEW a \in Actors, TerminateJob(a)
  PROVE  DeletionsAreTold' /\ LastSweep'
<1> USE ActorsDiffer DEF IndInv, TypeOK, KnownAreRegistered, TargetsRegistered, SchedulingIsOver, WakeInv,
            Unhindered, NothingEarly, SomeRegistered, DeletedAreDone, DeletionsAreTold, Told, LastSweep, CtxDone,
            Actors, Target, LivePhases, Terminating, NextPhases, jobVars, clusterVars, eventVars, ctxVars,
            resultVars, Goto, Forget, Resume, Notify
<1> DEFINE Goal == DeletionsAreTold' /\ LastSweep'
<1>1. CASE MarkDone(a)
  BY <1>1 DEF MarkDone
<1>2. CASE SendDone(a)
  BY <1>2 DEF SendDone
<1>3. CASE DeletePod(a)
  BY <1>3, DeletePodTells
<1>4. CASE DeletePodFails(a)
  BY <1>4 DEF DeletePodFails, CtxAlive
<1>5. CASE DeleteKeystore(a)
  BY <1>5 DEF DeleteKeystore
<1>6. CASE DeleteKeystoreFails(a)
  BY <1>6 DEF DeleteKeystoreFails, CtxAlive
<1> QED
  BY <1>1, <1>2, <1>3, <1>4, <1>5, <1>6
     DEF TerminateJob

-----------------------------------------------------------------------------
(***************************************************************************)
(* The last deletion.                                                      *)
(***************************************************************************)
LEMMA StepWakes ==
  ASSUME Unhindered
  PROVE  IndInv /\ WakeInv /\ [Next]_vars => WakeInv'
<1>1. IndInv /\ WakeInv /\ Next => WakeInv'
  BY MainOrders, HandlerOrders, OtherOrders, TerminateOrders,
     MainTells, HandlerTells, OtherTells, TerminateTells DEF Next, Step, WakeInv
<1>2. WakeInv /\ UNCHANGED vars => WakeInv'
  BY DEF WakeInv, NothingEarly, SomeRegistered, DeletedAreDone, DeletionsAreTold, Told, NothingFails,
         LastSweep, CtxDone, Target, vars, jobVars, clusterVars, eventVars, ctxVars, resultVars
<1> QED
  BY <1>1, <1>2

LEMMA WakeInvariance ==
  ASSUME Unhindered
  PROVE  Spec => []WakeInv
<1>1. Init => WakeInv
  <2> SUFFICES ASSUME Init PROVE WakeInv
    OBVIOUS
  <2>1. pc[Main] = "schedule" /\ \A a \in Actors : pc[a] \notin Deleting
    BY ActorsDiffer DEF Init, Actors, Deleting
  <2>2. \A j \in Jobs : pc[j] = "none"
    BY ActorsDiffer DEF Init, Actors
  <2>3. NothingEarly
    BY <2>2 DEF Init, NothingEarly
  <2>4. SomeRegistered /\ DeletedAreDone /\ DeletionsAreTold /\ NothingFails /\ LastSweep
    BY <2>1 DEF Init, SomeRegistered, DeletedAreDone, DeletionsAreTold, NothingFails, LastSweep
  <2> QED
    BY <2>3, <2>4 DEF WakeInv
<1>2. IndInv /\ WakeInv /\ [Next]_vars => WakeInv'
  BY StepWakes
<1> QED
  BY <1>1, <1>2, Invariance, PTL DEF Spec

LEMMA WakesUp == IndInv /\ WakeInv /\ DoneMeansClean => LastDeletionWakesUp
<1> SUFFICES ASSUME IndInv, WakeInv, DoneMeansClean, pc[Main] = "inform",
                    \A j \in registered : d[j] /\ ~Cleaning(j), ~CtxDone,
                    \A j \in registered : \A i \in DOMAIN queue[j] : queue[j][i] # "gone"
             PROVE  pc[Handler] = "sweep" /\ allDone
  BY DEF LastDeletionWakesUp
<1>1. \A j \in registered : pod[j] \notin LivePhases
  BY DEF IndInv, TypeOK, WakeInv, NothingFails, DoneMeansClean
<1>2. \A j \in registered : seen[j] = "gone"
  BY <1>1 DEF WakeInv, DeletionsAreTold, Told
<1> QED
  BY <1>2 DEF WakeInv, LastSweep

\* Where nothing but this code deletes a Pod, its deletions succeed and are watched,
\* and no timeout is shorter than the scheduling: once every job is done and cleaned
\* up after, the informer is about to be stopped. DeleteFunc reads the jobs one at a
\* time, while timers still mark and delete.
THEOREM LastDeletionIsEnough ==
  ASSUME Unhindered
  PROVE  Spec => []LastDeletionWakesUp
BY WakeInvariance, WakesUp, Invariance, DoneJobsAreClean, PTL

\* So the one way for extractJobResults to wait for ever, with every job done and no
\* deletion to come, needs one of those four.
THEOREM NeverStranded ==
  ASSUME Unhindered
  PROVE  Spec => []~Stranded
<1>1. LastDeletionWakesUp => ~Stranded
  BY DEF LastDeletionWakesUp, Stranded
<1> QED
  BY <1>1, LastDeletionIsEnough, PTL
=============================================================================
