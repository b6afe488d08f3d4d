-------------------------- MODULE StackDiagProofs --------------------------
(***************************************************************************)
(* Proofs about StackDiag, for any set of jobs and any faults.             *)
(***************************************************************************)
EXTENDS StackDiag, TLAPS

-----------------------------------------------------------------------------
(***************************************************************************)
(* Types.                                                                  *)
(***************************************************************************)

\* Initially every variable has its type.
LEMMA InitTypeOK == Init => TypeOK
<1> SUFFICES ASSUME Init PROVE TypeOK
  OBVIOUS
<1>1. queue \in [Jobs -> Seq(Notices)]
  BY DEF Init
<1>2. /\ pc \in [Actors -> MainPC \cup HandlerPC \cup TimerPC]
      /\ pc[Main] \in MainPC /\ pc[Handler] \in HandlerPC
      /\ \A j \in Jobs : pc[j] \in TimerPC
  BY ActorsDiffer DEF Init, Actors, MainPC, HandlerPC, TimerPC
<1>3. /\ target \in [{Main, Handler} -> Jobs \cup {None}]
      /\ lock \in [Jobs -> Actors \cup {None}]
  BY DEF Init
<1>4. /\ d \in [Jobs -> BOOLEAN] /\ keystore \in [Jobs -> BOOLEAN]
      /\ reported \in [Jobs -> BOOLEAN]
      /\ timer \in [Jobs -> {"nil", "armed", "fired", "over"}]
      /\ done \in [Jobs -> 0..1]
      /\ got \in [Jobs -> {"nothing", "partial", "full", "empty"}]
  BY DEF Init
<1>5. pod \in [Jobs -> Phases] /\ seen \in [Jobs -> Phases]
  BY DEF Init, Phases, LivePhases
<1> QED
  BY <1>1, <1>2, <1>3, <1>4, <1>5 DEF Init, TypeOK

\* Main's steps keep the types.
LEMMA MainTypeOK == TypeOK /\ MainStep => TypeOK'
<1> SUFFICES ASSUME TypeOK, MainStep PROVE TypeOK'
  OBVIOUS
<1> USE ActorsDiffer DEF TypeOK, Actors, MainPC, HandlerPC, TimerPC, Terminating, Phases, LivePhases,
            jobVars, clusterVars, eventVars, ctxVars, resultVars, Goto, Report
<1>1. ASSUME NEW j \in Jobs, Schedule(j) PROVE TypeOK'
  BY <1>1 DEF Schedule
<1>2. ASSUME NEW j \in Jobs, Skip(j) PROVE TypeOK'
  BY <1>2 DEF Skip
<1>3. ASSUME NEW j \in Jobs, AbortSkipsDone(j) PROVE TypeOK'
  BY <1>3 DEF AbortSkipsDone
<1>4. ASSUME NEW j \in Jobs, AbortTerminates(j) PROVE TypeOK'
  BY <1>4 DEF AbortTerminates
<1>5. CASE Bail
  BY <1>5 DEF Bail
<1>6. CASE Scheduled
  BY <1>6 DEF Scheduled
<1>7. CASE ListPods
  BY <1>7 DEF ListPods
<1>8. CASE StopInformer
  <2>1. queue' \in [Jobs -> Seq(Notices)]
    <3>1. <<>> \in Seq(Notices)
      OBVIOUS
    <3> QED
      BY <1>8, <3>1 DEF StopInformer
  <2> QED
    BY <1>8, <2>1 DEF StopInformer
<1>9. CASE Return
  BY <1>9 DEF Return
<1>10. CASE Exit
  BY <1>10 DEF Exit
<1> QED
  BY <1>1, <1>2, <1>3, <1>4, <1>5, <1>6, <1>7, <1>8, <1>9, <1>10 DEF MainStep

\* So do the steps of terminateJob, in whatever goroutine.
LEMMA TerminateTypeOK ==
  ASSUME TypeOK, TargetsRegistered, NEW a \in Actors, TerminateJob(a)
  PROVE  TypeOK'
<1> DEFINE j == Target(a)
<1>0. j \in Jobs
  BY DEF TypeOK, TargetsRegistered, TerminateJob, MarkDone, SendDone, DeletePod, DeletePodFails,
         DeleteKeystore, DeleteKeystoreFails, Target, Actors, Terminating
<1> USE ActorsDiffer, <1>0 DEF TypeOK, Actors, MainPC, HandlerPC, TimerPC, Terminating, Phases, LivePhases,
            jobVars, clusterVars, eventVars, ctxVars, resultVars, Goto, Resume, Forget
<1> HIDE DEF j
<1>1. CASE MarkDone(a)
  BY <1>1 DEF MarkDone, j
<1>2. CASE SendDone(a)
  BY <1>2 DEF SendDone, j
<1>3. CASE DeletePod(a)
  <2>1. queue' \in [Jobs -> Seq(Notices)]
    BY <1>3 DEF DeletePod, Notify, Notices, j
  <2> QED
    BY <1>3, <2>1 DEF DeletePod, j
<1>4. CASE DeletePodFails(a)
  <2>1. queue' \in [Jobs -> Seq(Notices)]
    <3>1. queue' = queue \/ Notify(j, "gone")
      BY <1>4 DEF DeletePodFails, j
    <3>2. CASE Notify(j, "gone")
      BY <3>2 DEF Notify, Notices
    <3> QED
      BY <3>1, <3>2
  <2>2. pod' \in [Jobs -> Phases]
    BY <1>4 DEF DeletePodFails, j
  <2>3. podFailed' \subseteq Jobs
    BY <1>4 DEF DeletePodFails, j
  <2>4. UNCHANGED <<target, left, registered, d, timer, done, lock, keystore, seen, unchecked, allDone,
                    interrupted, cancelled, got, reported, keystoreFailed, exited>>
        /\ pc' = [pc EXCEPT ![a] = "deleteKeystore"]
    BY <1>4 DEF DeletePodFails
  <2> QED
    BY <2>1, <2>2, <2>3, <2>4
<1>5. CASE DeleteKeystore(a)
  BY <1>5 DEF DeleteKeystore, j
<1>6. CASE DeleteKeystoreFails(a)
  <2>1. keystore' \in [Jobs -> BOOLEAN]
    BY <1>6 DEF DeleteKeystoreFails, j
  <2>2. keystoreFailed' \subseteq Jobs
    BY <1>6 DEF DeleteKeystoreFails, j
  <2>3. UNCHANGED <<left, registered, d, timer, done, lock, pod, seen, queue, unchecked, allDone,
                    interrupted, cancelled, got, reported, podFailed, exited>>
        /\ Goto(a, Resume(a)) /\ Forget(a)
    BY <1>6 DEF DeleteKeystoreFails
  <2> QED
    BY <2>1, <2>2, <2>3
<1> QED
  BY <1>1, <1>2, <1>3, <1>4, <1>5, <1>6 DEF TerminateJob

\* So do Handler's own steps.
LEMMA HandlerTypeOK ==
  ASSUME TypeOK, TargetsRegistered, HandlerStep PROVE TypeOK'
<1> USE ActorsDiffer DEF TypeOK, Actors, MainPC, HandlerPC, TimerPC, Terminating, Phases,
            LivePhases, jobVars, clusterVars, eventVars, ctxVars, resultVars, Goto, Report, Forget
<1>1. CASE UpdateIgnored
  BY <1>1 DEF UpdateIgnored
<1>2. CASE UpdateTerminates
  BY <1>2 DEF UpdateTerminates, TargetsRegistered
<1>3. CASE UpdateExtracts
  BY <1>3 DEF UpdateExtracts
<1>4. CASE SweepEnds
  BY <1>4 DEF SweepEnds
<1>5. ASSUME NEW j \in Jobs, OnUpdate(j) PROVE TypeOK'
  <2>1. queue' \in [Jobs -> Seq(Notices)] /\ seen' \in [Jobs -> Phases]
    BY <1>5 DEF OnUpdate, Notices
  <2> QED
    BY <1>5, <2>1 DEF OnUpdate, BeginUpdate
<1>6. ASSUME NEW j \in Jobs, OnResync(j) PROVE TypeOK'
  BY <1>6 DEF OnResync, BeginUpdate
<1>7. ASSUME NEW j \in Jobs, Extract(j) PROVE TypeOK'
  <2> USE DEF CompleteJob, ExtractEnds
  <2>1. CASE ExtractOk(j)
    BY <2>1 DEF ExtractOk
  <2>2. CASE ExtractCut(j)
    BY <2>2 DEF ExtractCut
  <2>3. CASE ExtractFails(j)
    BY <2>3 DEF ExtractFails
  <2>4. CASE ExtractNothing(j)
    BY <2>4 DEF ExtractNothing
  <2> QED
    BY <1>7, <2>1, <2>2, <2>3, <2>4 DEF Extract
<1>8. ASSUME NEW j \in Jobs, OnDelete(j) \/ OnTombstone(j) PROVE TypeOK'
  <2>1. queue' \in [Jobs -> Seq(Notices)] /\ seen' \in [Jobs -> Phases]
    <3>1. <<>> \in Seq(Notices)
      OBVIOUS
    <3>2. /\ queue' = [queue EXCEPT ![j] = <<>>]
          /\ seen' = [seen EXCEPT ![j] = "gone"]
      BY <1>8 DEF OnDelete, OnTombstone
    <3> QED
      BY <3>1, <3>2
  <2>2. CASE OnDelete(j)
    BY <2>1, <2>2 DEF OnDelete
  <2>3. CASE OnTombstone(j)
    BY <2>1, <2>3 DEF OnTombstone
  <2> QED
    BY <1>8, <2>2, <2>3
<1>9. ASSUME NEW j \in Jobs, Sweep(j) PROVE TypeOK'
  BY <1>9 DEF Sweep
<1> QED
  BY <1>1, <1>2, <1>3, <1>4, <1>5, <1>6, <1>7, <1>8, <1>9 DEF HandlerStep, Update

\* So do the steps of a timer goroutine and of the environment.
LEMMA OtherTypeOK ==
  ASSUME TypeOK, OtherStep PROVE TypeOK'
<1> USE ActorsDiffer DEF TypeOK, Actors, MainPC, HandlerPC, TimerPC, Terminating, Phases,
            LivePhases, jobVars, clusterVars, eventVars, ctxVars, resultVars, Goto, Report
<1>1. ASSUME NEW j \in Jobs, TimerStep(j) \/ TimerFires(j) PROVE TypeOK'
  <2>1. CASE StartTimer(j)
    BY <2>1 DEF StartTimer
  <2>2. CASE Timeout(j)
    BY <2>2 DEF Timeout
  <2>3. CASE Released(j)
    BY <2>3 DEF Released
  <2>4. CASE TimerFires(j)
    BY <2>4 DEF TimerFires
  <2> QED
    BY <1>1, <2>1, <2>2, <2>3, <2>4 DEF TimerStep
<1>2. ASSUME NEW j \in Jobs, PodProgress(j) PROVE TypeOK'
  <2>1. PICK p \in NextPhases[pod[j]] : pod' = [pod EXCEPT ![j] = p] /\ Notify(j, p)
    BY <1>2 DEF PodProgress
  <2>2. p \in LivePhases
    BY <1>2 DEF PodProgress, NextPhases
  <2>3. queue' \in [Jobs -> Seq(Notices)]
    BY <2>1, <2>2 DEF Notify, Notices
  <2> QED
    BY <1>2, <2>1, <2>2, <2>3 DEF PodProgress
<1>3. ASSUME NEW j \in Jobs, PodVanishes(j) PROVE TypeOK'
  <2>1. queue' \in [Jobs -> Seq(Notices)]
    BY <1>3 DEF PodVanishes, Notify, Notices
  <2> QED
    BY <1>3, <2>1 DEF PodVanishes
<1>4. CASE Interrupt
  BY <1>4 DEF Interrupt
<1> QED
  BY <1>1, <1>2, <1>3, <1>4 DEF OtherStep
-----------------------------------------------------------------------------
(***************************************************************************)
(* The lock of a job and the signal in its channel.                        *)
(***************************************************************************)

\* Main never holds a lock where it looks at a job.
LEMMA MainLock ==
  ASSUME IndInv, TypeOK', MainStep
  PROVE  LockDiscipline' /\ DoneSignalNotLost'
<1> DEFINE Goal == LockDiscipline' /\ DoneSignalNotLost'
<1> USE ActorsDiffer DEF IndInv, LockDiscipline, DoneSignalNotLost, TypeOK, Actors, MainPC,
            HandlerPC, TimerPC, Terminating, Phases, LivePhases, jobVars, clusterVars,
            eventVars, ctxVars, resultVars, Goto, Target, Unlocked, Forget
<1>1. ASSUME NEW j \in Jobs, Schedule(j) PROVE Goal
  BY <1>1 DEF Schedule, KnownAreRegistered, ScheduleLoop
<1>2. ASSUME NEW j \in Jobs, Skip(j) PROVE Goal
  BY <1>2 DEF Skip
<1>3. ASSUME NEW j \in Jobs, AbortSkipsDone(j) PROVE Goal
  BY <1>3 DEF AbortSkipsDone
<1>4. ASSUME NEW j \in Jobs, AbortTerminates(j) PROVE Goal
  BY <1>4 DEF AbortTerminates
<1>5. CASE Bail
  BY <1>5 DEF Bail
<1>6. CASE Scheduled
  BY <1>6 DEF Scheduled
<1>7. CASE ListPods
  BY <1>7 DEF ListPods, SchedulingIsOver
<1>8. CASE StopInformer
  BY <1>8 DEF StopInformer
<1>9. CASE Return
  BY <1>9 DEF Return
<1>10. CASE Exit
  BY <1>10 DEF Exit
<1> QED
  BY <1>1, <1>2, <1>3, <1>4, <1>5, <1>6, <1>7, <1>8, <1>9, <1>10 DEF MainStep

\* Nor does Handler.
LEMMA HandlerLock ==
  ASSUME IndInv, TypeOK', HandlerStep
  PROVE  LockDiscipline' /\ DoneSignalNotLost'
<1> DEFINE Goal == LockDiscipline' /\ DoneSignalNotLost'
<1> USE ActorsDiffer DEF IndInv, LockDiscipline, DoneSignalNotLost, TypeOK, Actors, MainPC,
            HandlerPC, TimerPC, Terminating, Phases, LivePhases, jobVars, clusterVars,
            eventVars, ctxVars, resultVars, Goto, Target, Unlocked, Forget
<1>1. CASE UpdateIgnored
  BY <1>1 DEF UpdateIgnored
<1>2. CASE UpdateTerminates
  BY <1>2 DEF UpdateTerminates
<1>3. CASE UpdateExtracts
  BY <1>3 DEF UpdateExtracts
<1>4. CASE SweepEnds
  BY <1>4 DEF SweepEnds
<1>5. ASSUME NEW j \in Jobs, OnUpdate(j) PROVE Goal
  BY <1>5 DEF OnUpdate, BeginUpdate
<1>6. ASSUME NEW j \in Jobs, OnResync(j) PROVE Goal
  BY <1>6 DEF OnResync, BeginUpdate
<1>7. ASSUME NEW j \in Jobs, ExtractOk(j) PROVE Goal
  BY <1>7 DEF ExtractOk, CompleteJob, ExtractEnds
<1>8. ASSUME NEW j \in Jobs, ExtractCut(j) PROVE Goal
  BY <1>8 DEF ExtractCut, CompleteJob, ExtractEnds
<1>9. ASSUME NEW j \in Jobs, ExtractFails(j) PROVE Goal
  BY <1>9 DEF ExtractFails, ExtractEnds
<1>10. ASSUME NEW j \in Jobs, ExtractNothing(j) PROVE Goal
  BY <1>10 DEF ExtractNothing, CompleteJob, ExtractEnds
<1>11. ASSUME NEW j \in Jobs, OnDelete(j) PROVE Goal
  BY <1>11 DEF OnDelete
<1>12. ASSUME NEW j \in Jobs, OnTombstone(j) PROVE Goal
  BY <1>12 DEF OnTombstone
<1>13. ASSUME NEW j \in Jobs, Sweep(j) PROVE Goal
  BY <1>13 DEF Sweep
<1> QED
  BY <1>1, <1>2, <1>3, <1>4, <1>5, <1>6, <1>7, <1>8, <1>9, <1>10, <1>11, <1>12, <1>13 DEF HandlerStep, Update, Extract

\* A timer goroutine arms its timer without the lock in its hands, and takes
\* the signal on its way out only.
LEMMA OtherLock ==
  ASSUME IndInv, TypeOK', OtherStep
  PROVE  LockDiscipline' /\ DoneSignalNotLost'
<1> DEFINE Goal == LockDiscipline' /\ DoneSignalNotLost'
<1> USE ActorsDiffer DEF IndInv, LockDiscipline, DoneSignalNotLost, TypeOK, Actors, MainPC,
            HandlerPC, TimerPC, Terminating, Phases, LivePhases, jobVars, clusterVars,
            eventVars, ctxVars, resultVars, Goto, Target, Unlocked
<1>1. ASSUME NEW j \in Jobs, StartTimer(j) PROVE Goal
  BY <1>1 DEF StartTimer
<1>2. ASSUME NEW j \in Jobs, Timeout(j) PROVE Goal
  BY <1>2 DEF Timeout
<1>3. ASSUME NEW j \in Jobs, Released(j) PROVE Goal
  BY <1>3 DEF Released
<1>4. ASSUME NEW j \in Jobs, TimerFires(j) PROVE Goal
  BY <1>4 DEF TimerFires
<1>5. ASSUME NEW j \in Jobs, PodProgress(j) PROVE Goal
  BY <1>5 DEF PodProgress, Notify
<1>6. ASSUME NEW j \in Jobs, PodVanishes(j) PROVE Goal
  BY <1>6 DEF PodVanishes, Notify
<1>7. CASE Interrupt
  BY <1>7 DEF Interrupt
<1> QED
  BY <1>1, <1>2, <1>3, <1>4, <1>5, <1>6, <1>7 DEF OtherStep, TimerStep

\* The lock is taken at the start of MarkDone and released with the signal.
LEMMA TerminateLock ==
  ASSUME IndInv, TypeOK', NEW a \in Actors, TerminateJob(a)
  PROVE  LockDiscipline' /\ DoneSignalNotLost'
<1> DEFINE Goal == LockDiscipline' /\ DoneSignalNotLost'
<1> USE ActorsDiffer DEF IndInv, LockDiscipline, DoneSignalNotLost, TypeOK, Actors, MainPC,
            HandlerPC, TimerPC, Terminating, Phases, LivePhases, jobVars, clusterVars,
            eventVars, ctxVars, resultVars, Goto, Target, Unlocked, Forget, Resume
<1>1. CASE MarkDone(a)
  BY <1>1 DEF MarkDone
<1>2. CASE SendDone(a)
  BY <1>2 DEF SendDone
<1>3. CASE DeletePod(a)
  BY <1>3 DEF DeletePod, Notify
<1>4. CASE DeletePodFails(a)
  BY <1>4 DEF DeletePodFails
<1>5. CASE DeleteKeystore(a)
  BY <1>5 DEF DeleteKeystore
<1>6. CASE DeleteKeystoreFails(a)
  BY <1>6 DEF DeleteKeystoreFails
<1> QED
  BY <1>1, <1>2, <1>3, <1>4, <1>5, <1>6 DEF TerminateJob

-----------------------------------------------------------------------------
(***************************************************************************)
(* What is known of a job is known of a registered one.                    *)
(***************************************************************************)

\* Scheduling registers the job it makes known; the abort loop takes its jobs
\* from the registered ones.
LEMMA MainKnown ==
  ASSUME IndInv, TypeOK', MainStep
  PROVE  KnownAreRegistered' /\ TargetsRegistered'
<1> DEFINE Goal == KnownAreRegistered' /\ TargetsRegistered'
<1> USE ActorsDiffer DEF IndInv, KnownAreRegistered, TargetsRegistered, TypeOK, Actors, MainPC,
            HandlerPC, TimerPC, Terminating, Phases, LivePhases, jobVars, clusterVars,
            eventVars, ctxVars, resultVars, Goto, Target, Unlocked, Forget
<1>1. ASSUME NEW j \in Jobs, Schedule(j) PROVE Goal
  BY <1>1 DEF Schedule
<1>2. ASSUME NEW j \in Jobs, Skip(j) PROVE Goal
  BY <1>2 DEF Skip
<1>3. ASSUME NEW j \in Jobs, AbortSkipsDone(j) PROVE Goal
  BY <1>3 DEF AbortSkipsDone
<1>4. ASSUME NEW j \in Jobs, AbortTerminates(j) PROVE Goal
  BY <1>4 DEF AbortTerminates, AbortLoop
<1>5. CASE Bail
  BY <1>5 DEF Bail
<1>6. CASE Scheduled
  BY <1>6 DEF Scheduled
<1>7. CASE ListPods
  BY <1>7 DEF ListPods
<1>8. CASE StopInformer
  BY <1>8 DEF StopInformer
<1>9. CASE Return
  BY <1>9 DEF Return
<1>10. CASE Exit
  BY <1>10 DEF Exit
<1> QED
  BY <1>1, <1>2, <1>3, <1>4, <1>5, <1>6, <1>7, <1>8, <1>9, <1>10 DEF MainStep

\* Handler takes its jobs from notifications, which registered jobs have.
LEMMA HandlerKnown ==
  ASSUME IndInv, TypeOK', HandlerStep
  PROVE  KnownAreRegistered' /\ TargetsRegistered'
<1> DEFINE Goal == KnownAreRegistered' /\ TargetsRegistered'
<1> USE ActorsDiffer DEF IndInv, KnownAreRegistered, TargetsRegistered, TypeOK, Actors, MainPC,
            HandlerPC, TimerPC, Terminating, Phases, LivePhases, jobVars, clusterVars,
            eventVars, ctxVars, resultVars, Goto, Target, Unlocked, Forget
<1>1. CASE UpdateIgnored
  BY <1>1 DEF UpdateIgnored
<1>2. CASE UpdateTerminates
  BY <1>2 DEF UpdateTerminates
<1>3. CASE UpdateExtracts
  BY <1>3 DEF UpdateExtracts
<1>4. CASE SweepEnds
  BY <1>4 DEF SweepEnds
<1>5. ASSUME NEW j \in Jobs, OnUpdate(j) PROVE Goal
  BY <1>5 DEF OnUpdate, BeginUpdate
<1>6. ASSUME NEW j \in Jobs, OnResync(j) PROVE Goal
  BY <1>6 DEF OnResync, BeginUpdate
<1>7. ASSUME NEW j \in Jobs, ExtractOk(j) PROVE Goal
  BY <1>7 DEF ExtractOk, CompleteJob, ExtractEnds
<1>8. ASSUME NEW j \in Jobs, ExtractCut(j) PROVE Goal
  BY <1>8 DEF ExtractCut, CompleteJob, ExtractEnds
<1>9. ASSUME NEW j \in Jobs, ExtractFails(j) PROVE Goal
  BY <1>9 DEF ExtractFails, ExtractEnds
<1>10. ASSUME NEW j \in Jobs, ExtractNothing(j) PROVE Goal
  BY <1>10 DEF ExtractNothing, CompleteJob, ExtractEnds
<1>11. ASSUME NEW j \in Jobs, OnDelete(j) PROVE Goal
  BY <1>11 DEF OnDelete
<1>12. ASSUME NEW j \in Jobs, OnTombstone(j) PROVE Goal
  BY <1>12 DEF OnTombstone
<1>13. ASSUME NEW j \in Jobs, Sweep(j) PROVE Goal
  BY <1>13 DEF Sweep
<1> QED
  BY <1>1, <1>2, <1>3, <1>4, <1>5, <1>6, <1>7, <1>8, <1>9, <1>10, <1>11, <1>12, <1>13 DEF HandlerStep, Update, Extract

\* Only a Pod that was created progresses or vanishes.
LEMMA OtherKnown ==
  ASSUME IndInv, TypeOK', OtherStep
  PROVE  KnownAreRegistered' /\ TargetsRegistered'
<1> DEFINE Goal == KnownAreRegistered' /\ TargetsRegistered'
<1> USE ActorsDiffer DEF IndInv, KnownAreRegistered, TargetsRegistered, TypeOK, Actors, MainPC,
            HandlerPC, TimerPC, Terminating, Phases, LivePhases, jobVars, clusterVars,
            eventVars, ctxVars, resultVars, Goto, Target, Unlocked
<1>1. ASSUME NEW j \in Jobs, StartTimer(j) PROVE Goal
  BY <1>1 DEF StartTimer
<1>2. ASSUME NEW j \in Jobs, Timeout(j) PROVE Goal
  BY <1>2 DEF Timeout
<1>3. ASSUME NEW j \in Jobs, Released(j) PROVE Goal
  BY <1>3 DEF Released
<1>4. ASSUME NEW j \in Jobs, TimerFires(j) PROVE Goal
  BY <1>4 DEF TimerFires
<1>5. ASSUME NEW j \in Jobs, PodProgress(j) PROVE Goal
  BY <1>5 DEF PodProgress, Notify
<1>6. ASSUME NEW j \in Jobs, PodVanishes(j) PROVE Goal
  BY <1>6 DEF PodVanishes, Notify
<1>7. CASE Interrupt
  BY <1>7 DEF Interrupt
<1> QED
  BY <1>1, <1>2, <1>3, <1>4, <1>5, <1>6, <1>7 DEF OtherStep, TimerStep

\* terminateJob works on a registered job.
LEMMA TerminateKnown ==
  ASSUME IndInv, TypeOK', NEW a \in Actors, TerminateJob(a)
  PROVE  KnownAreRegistered' /\ TargetsRegistered'
<1> DEFINE Goal == KnownAreRegistered' /\ TargetsRegistered'
<1> USE ActorsDiffer DEF IndInv, KnownAreRegistered, TargetsRegistered, TypeOK, Actors, MainPC,
            HandlerPC, TimerPC, Terminating, Phases, LivePhases, jobVars, clusterVars,
            eventVars, ctxVars, resultVars, Goto, Target, Unlocked, Forget, Resume
<1>1. CASE MarkDone(a)
  BY <1>1 DEF MarkDone
<1>2. CASE SendDone(a)
  BY <1>2 DEF SendDone
<1>3. CASE DeletePod(a)
  BY <1>3 DEF DeletePod, Notify
<1>4. CASE DeletePodFails(a)
  <2>1. CASE UNCHANGED <<pod, queue>>
    BY <1>4, <2>1 DEF DeletePodFails
  <2>2. CASE pod' = [pod EXCEPT ![Target(a)] = "gone"] /\ Notify(Target(a), "gone")
    BY <1>4, <2>2 DEF DeletePodFails, Notify
  <2> QED
    BY <1>4, <2>1, <2>2 DEF DeletePodFails
<1>5. CASE DeleteKeystore(a)
  BY <1>5 DEF DeleteKeystore
<1>6. CASE DeleteKeystoreFails(a)
  BY <1>6 DEF DeleteKeystoreFails
<1> QED
  BY <1>1, <1>2, <1>3, <1>4, <1>5, <1>6 DEF TerminateJob

-----------------------------------------------------------------------------
(***************************************************************************)
(* The loops over the jobs: scheduling, DeleteFunc and abortAllJobs.       *)
(***************************************************************************)

\* Main leaves the abort loop with every job done.
LEMMA MainLoops ==
  ASSUME IndInv, TypeOK', MainStep
  PROVE  /\ SchedulingIsOver' /\ ScheduleLoop' /\ SweepLoop' /\ AbortLoop'
         /\ CancelImpliesAllDone' /\ ReturnedAllDone'
<1> DEFINE Goal == /\ SchedulingIsOver' /\ ScheduleLoop' /\ SweepLoop' /\ AbortLoop'
                   /\ CancelImpliesAllDone' /\ ReturnedAllDone'
<1> USE ActorsDiffer DEF IndInv, SchedulingIsOver, ScheduleLoop, SweepLoop, AbortLoop,
            CancelImpliesAllDone, ReturnedAllDone, KnownAreRegistered,
            TargetsRegistered, TypeOK, Actors, MainPC, HandlerPC, TimerPC, Terminating,
            Phases, LivePhases, jobVars, clusterVars, eventVars, ctxVars, resultVars,
            Goto, Target, Unlocked, Forget
<1>1. ASSUME NEW j \in Jobs, Schedule(j) PROVE Goal
  BY <1>1 DEF Schedule
<1>2. ASSUME NEW j \in Jobs, Skip(j) PROVE Goal
  BY <1>2 DEF Skip
<1>3. ASSUME NEW j \in Jobs, AbortSkipsDone(j) PROVE Goal
  BY <1>3 DEF AbortSkipsDone
<1>4. ASSUME NEW j \in Jobs, AbortTerminates(j) PROVE Goal
  BY <1>4 DEF AbortTerminates
<1>5. CASE Bail
  BY <1>5 DEF Bail
<1>6. CASE Scheduled
  BY <1>6 DEF Scheduled
<1>7. CASE ListPods
  BY <1>7 DEF ListPods
<1>8. CASE StopInformer
  BY <1>8 DEF StopInformer
<1>9. CASE Return
  BY <1>9 DEF Return
<1>10. CASE Exit
  BY <1>10 DEF Exit
<1> QED
  BY <1>1, <1>2, <1>3, <1>4, <1>5, <1>6, <1>7, <1>8, <1>9, <1>10 DEF MainStep

\* Handler cancels the context with every job done.
LEMMA HandlerLoops ==
  ASSUME IndInv, TypeOK', HandlerStep
  PROVE  /\ SchedulingIsOver' /\ ScheduleLoop' /\ SweepLoop' /\ AbortLoop'
         /\ CancelImpliesAllDone' /\ ReturnedAllDone'
<1> DEFINE Goal == /\ SchedulingIsOver' /\ ScheduleLoop' /\ SweepLoop' /\ AbortLoop'
                   /\ CancelImpliesAllDone' /\ ReturnedAllDone'
<1> USE ActorsDiffer DEF IndInv, SchedulingIsOver, ScheduleLoop, SweepLoop, AbortLoop,
            CancelImpliesAllDone, ReturnedAllDone, KnownAreRegistered,
            TargetsRegistered, TypeOK, Actors, MainPC, HandlerPC, TimerPC, Terminating,
            Phases, LivePhases, jobVars, clusterVars, eventVars, ctxVars, resultVars,
            Goto, Target, Unlocked, Forget
<1>1. CASE UpdateIgnored
  BY <1>1 DEF UpdateIgnored
<1>2. CASE UpdateTerminates
  BY <1>2 DEF UpdateTerminates
<1>3. CASE UpdateExtracts
  BY <1>3 DEF UpdateExtracts
<1>4. CASE SweepEnds
  BY <1>4 DEF SweepEnds
<1>5. ASSUME NEW j \in Jobs, OnUpdate(j) PROVE Goal
  BY <1>5 DEF OnUpdate, BeginUpdate
<1>6. ASSUME NEW j \in Jobs, OnResync(j) PROVE Goal
  BY <1>6 DEF OnResync, BeginUpdate
<1>7. ASSUME NEW j \in Jobs, ExtractOk(j) PROVE Goal
  BY <1>7 DEF ExtractOk, CompleteJob, ExtractEnds
<1>8. ASSUME NEW j \in Jobs, ExtractCut(j) PROVE Goal
  BY <1>8 DEF ExtractCut, CompleteJob, ExtractEnds
<1>9. ASSUME NEW j \in Jobs, ExtractFails(j) PROVE Goal
  BY <1>9 DEF ExtractFails, ExtractEnds
<1>10. ASSUME NEW j \in Jobs, ExtractNothing(j) PROVE Goal
  BY <1>10 DEF ExtractNothing, CompleteJob, ExtractEnds
<1>11. ASSUME NEW j \in Jobs, OnDelete(j) PROVE Goal
  BY <1>11 DEF OnDelete
<1>12. ASSUME NEW j \in Jobs, OnTombstone(j) PROVE Goal
  BY <1>12 DEF OnTombstone
<1>13. ASSUME NEW j \in Jobs, Sweep(j) PROVE Goal
  BY <1>13 DEF Sweep
<1> QED
  BY <1>1, <1>2, <1>3, <1>4, <1>5, <1>6, <1>7, <1>8, <1>9, <1>10, <1>11, <1>12, <1>13 DEF HandlerStep, Update, Extract

\* No timer or Pod undoes it.
LEMMA OtherLoops ==
  ASSUME IndInv, TypeOK', OtherStep
  PROVE  /\ SchedulingIsOver' /\ ScheduleLoop' /\ SweepLoop' /\ AbortLoop'
         /\ CancelImpliesAllDone' /\ ReturnedAllDone'
<1> DEFINE Goal == /\ SchedulingIsOver' /\ ScheduleLoop' /\ SweepLoop' /\ AbortLoop'
                   /\ CancelImpliesAllDone' /\ ReturnedAllDone'
<1> USE ActorsDiffer DEF IndInv, SchedulingIsOver, ScheduleLoop, SweepLoop, AbortLoop,
            CancelImpliesAllDone, ReturnedAllDone, KnownAreRegistered,
            TargetsRegistered, TypeOK, Actors, MainPC, HandlerPC, TimerPC, Terminating,
            Phases, LivePhases, jobVars, clusterVars, eventVars, ctxVars, resultVars,
            Goto, Target, Unlocked
<1>1. ASSUME NEW j \in Jobs, StartTimer(j) PROVE Goal
  BY <1>1 DEF StartTimer
<1>2. ASSUME NEW j \in Jobs, Timeout(j) PROVE Goal
  BY <1>2 DEF Timeout
<1>3. ASSUME NEW j \in Jobs, Released(j) PROVE Goal
  BY <1>3 DEF Released
<1>4. ASSUME NEW j \in Jobs, TimerFires(j) PROVE Goal
  BY <1>4 DEF TimerFires
<1>5. ASSUME NEW j \in Jobs, PodProgress(j) PROVE Goal
  BY <1>5 DEF PodProgress, Notify
<1>6. ASSUME NEW j \in Jobs, PodVanishes(j) PROVE Goal
  BY <1>6 DEF PodVanishes, Notify
<1>7. CASE Interrupt
  BY <1>7 DEF Interrupt
<1> QED
  BY <1>1, <1>2, <1>3, <1>4, <1>5, <1>6, <1>7 DEF OtherStep, TimerStep

\* A job that is terminated stays done.
LEMMA TerminateLoops ==
  ASSUME IndInv, TypeOK', NEW a \in Actors, TerminateJob(a)
  PROVE  /\ SchedulingIsOver' /\ ScheduleLoop' /\ SweepLoop' /\ AbortLoop'
         /\ CancelImpliesAllDone' /\ ReturnedAllDone'
<1> DEFINE Goal == /\ SchedulingIsOver' /\ ScheduleLoop' /\ SweepLoop' /\ AbortLoop'
                   /\ CancelImpliesAllDone' /\ ReturnedAllDone'
<1> USE ActorsDiffer DEF IndInv, SchedulingIsOver, ScheduleLoop, SweepLoop, AbortLoop,
            CancelImpliesAllDone, ReturnedAllDone, KnownAreRegistered,
            TargetsRegistered, TypeOK, Actors, MainPC, HandlerPC, TimerPC, Terminating,
            Phases, LivePhases, jobVars, clusterVars, eventVars, ctxVars, resultVars,
            Goto, Target, Unlocked, Forget, Resume
<1>1. CASE MarkDone(a)
  BY <1>1 DEF MarkDone
<1>2. CASE SendDone(a)
  BY <1>2 DEF SendDone
<1>3. CASE DeletePod(a)
  BY <1>3 DEF DeletePod, Notify
<1>4. CASE DeletePodFails(a)
  BY <1>4 DEF DeletePodFails
<1>5. CASE DeleteKeystore(a)
  BY <1>5 DEF DeleteKeystore
<1>6. CASE DeleteKeystoreFails(a)
  BY <1>6 DEF DeleteKeystoreFails
<1> QED
  BY <1>1, <1>2, <1>3, <1>4, <1>5, <1>6 DEF TerminateJob
-----------------------------------------------------------------------------
(***************************************************************************)
(* The invariant and what follows from it.                                 *)
(***************************************************************************)

\* The invariant holds when nothing is scheduled.
LEMMA InitIndInv == Init => IndInv
<1> SUFFICES ASSUME Init PROVE IndInv
  OBVIOUS
<1>1. TypeOK
  BY InitTypeOK
<1>2. LockDiscipline /\ DoneSignalNotLost
  BY ActorsDiffer DEF Init, LockDiscipline, DoneSignalNotLost, Actors, Target
<1>3. KnownAreRegistered /\ TargetsRegistered
  BY ActorsDiffer DEF Init, KnownAreRegistered, TargetsRegistered, Actors, Terminating
<1>4. SchedulingIsOver /\ ScheduleLoop /\ SweepLoop /\ AbortLoop
  BY ActorsDiffer DEF Init, SchedulingIsOver, ScheduleLoop, SweepLoop, AbortLoop, Actors,
     Terminating
<1>5. CancelImpliesAllDone /\ ReturnedAllDone
  BY DEF Init, CancelImpliesAllDone, ReturnedAllDone
<1> QED
  BY <1>1, <1>2, <1>3, <1>4, <1>5 DEF IndInv

\* Every step of every goroutine and of the environment preserves it.
LEMMA StepIndInv == IndInv /\ Step => IndInv'
<1> SUFFICES ASSUME IndInv, Step PROVE IndInv'
  OBVIOUS
<1>0. TypeOK /\ TargetsRegistered
  BY DEF IndInv
<1>1. CASE MainStep
  <2>1. TypeOK'
    BY <1>0, <1>1, MainTypeOK
  <2> QED
    BY <1>1, <2>1, MainLock, MainKnown, MainLoops DEF IndInv
<1>2. CASE HandlerStep
  <2>1. TypeOK'
    BY <1>0, <1>2, HandlerTypeOK
  <2> QED
    BY <1>2, <2>1, HandlerLock, HandlerKnown, HandlerLoops DEF IndInv
<1>3. CASE OtherStep
  <2>1. TypeOK'
    BY <1>0, <1>3, OtherTypeOK
  <2> QED
    BY <1>3, <2>1, OtherLock, OtherKnown, OtherLoops DEF IndInv
<1>4. ASSUME NEW a \in Actors, TerminateJob(a) PROVE IndInv'
  <2>1. TypeOK'
    BY <1>0, <1>4, TerminateTypeOK
  <2> QED
    BY <1>4, <2>1, TerminateLock, TerminateKnown, TerminateLoops DEF IndInv
<1> QED
  BY <1>1, <1>2, <1>3, <1>4 DEF Step

\* So does a step that changes nothing.
LEMMA StutterIndInv == IndInv /\ UNCHANGED vars => IndInv'
BY DEF IndInv, TypeOK, LockDiscipline, DoneSignalNotLost, KnownAreRegistered, TargetsRegistered,
       SchedulingIsOver, ScheduleLoop, SweepLoop, AbortLoop, CancelImpliesAllDone,
       ReturnedAllDone, Target, vars, jobVars, clusterVars, eventVars, ctxVars, resultVars

\* A call of runStackDiagnostics keeps the invariant, for any number of jobs.
THEOREM Invariance == Spec => []IndInv
<1>1. IndInv /\ [Next]_vars => IndInv'
  BY StepIndInv, StutterIndInv DEF Next
<1> QED
  BY InitIndInv, <1>1, PTL DEF Spec

\* Every variable keeps its type.
THEOREM TypeCorrect == Spec => []TypeOK
<1>1. IndInv => TypeOK
  BY DEF IndInv
<1> QED
  BY <1>1, Invariance, PTL

\* diagJob's lock is held by one goroutine, inside MarkDone.
THEOREM MutualExclusion == Spec => []LockDiscipline
<1>1. IndInv => LockDiscipline
  BY DEF IndInv
<1> QED
  BY <1>1, Invariance, PTL

\* cancelFunc is called only when every scheduled job is done.
THEOREM CancelIsSafe == Spec => []CancelImpliesAllDone
<1>1. IndInv => CancelImpliesAllDone
  BY DEF IndInv
<1> QED
  BY <1>1, Invariance, PTL

\* A done job's signal waits for its timer goroutine, even one that has not
\* started its timer yet.
THEOREM SignalIsKept == Spec => []DoneSignalNotLost
<1>1. IndInv => DoneSignalNotLost
  BY DEF IndInv
<1> QED
  BY <1>1, Invariance, PTL

-----------------------------------------------------------------------------
(***************************************************************************)
(* The call implements DiagSession.                                        *)
(***************************************************************************)

\* A call begins like a session.
LEMMA InitSession == Init => Session!Init
BY ActorsDiffer DEF Init, Session!Init, status, session, Actors

\* A step that touches neither a flag, nor the registered jobs, nor the part
\* of the call Main is in, is no step of the session.
LEMMA SessionStutters ==
  ASSUME d' = d, registered' = registered, session' = session
  PROVE  UNCHANGED Session!vars
BY DEF status, Session!vars

\* Main's steps open jobs, and begin and close the session.
LEMMA MainSession ==
  ASSUME IndInv, MainStep
  PROVE  Session!Next \/ UNCHANGED Session!vars
<1> USE ActorsDiffer DEF IndInv, TypeOK, Actors, jobVars, Goto
<1>1. ASSUME NEW j \in Jobs, Schedule(j) PROVE Session!Open(j)
  <2>1. session = "scheduling" /\ session' = session
    BY <1>1 DEF Schedule, session
  <2>2. j \notin registered /\ ~d[j]
    BY <1>1 DEF Schedule, ScheduleLoop, KnownAreRegistered
  <2>3. status' = [status EXCEPT ![j] = "open"] /\ status[j] = "unscheduled"
    BY <1>1, <2>2 DEF Schedule, status
  <2> QED
    BY <2>1, <2>3 DEF Session!Open
<1>2. ASSUME NEW j \in Jobs, Skip(j) \/ AbortSkipsDone(j) PROVE UNCHANGED Session!vars
  BY <1>2, SessionStutters DEF Skip, AbortSkipsDone, session
<1>3. ASSUME NEW j \in Jobs, AbortTerminates(j) PROVE UNCHANGED Session!vars
  BY <1>3, SessionStutters DEF AbortTerminates, session
<1>4. CASE Bail
  BY <1>4 DEF Bail, status, session, Session!Next, Session!Abandon
<1>5. CASE Scheduled
  <2>1. CASE registered = {}
    BY <1>5, <2>1 DEF Scheduled, status, session, Session!Next, Session!Close, Session!NoneOpen
  <2>2. CASE registered # {}
    BY <1>5, <2>2 DEF Scheduled, status, session, Session!Next, Session!Collect
  <2> QED
    BY <2>1, <2>2
<1>6. CASE ListPods \/ StopInformer \/ Exit
  <2>1. session' = session
    BY <1>6 DEF ListPods, StopInformer, Exit, session
  <2> QED
    BY <1>6, <2>1, SessionStutters DEF ListPods, StopInformer, Exit
<1>7. CASE Return
  <2>1. \A j \in registered : d[j]
    BY <1>7 DEF Return, AbortLoop
  <2>2. session = "collecting" /\ session' = "over"
    BY <1>7 DEF Return, session
  <2>3. status' = status /\ Session!NoneOpen
    BY <1>7, <2>1 DEF Return, status, Session!NoneOpen
  <2> QED
    BY <2>2, <2>3 DEF Session!Next, Session!Close
<1> QED
  BY <1>1, <1>2, <1>3, <1>4, <1>5, <1>6, <1>7 DEF MainStep, Session!Next

\* The first MarkDone of a job finishes it; nothing else in terminateJob shows.
LEMMA TerminateSession ==
  ASSUME IndInv, NEW a \in Actors, TerminateJob(a)
  PROVE  Session!Next \/ UNCHANGED Session!vars
<1> USE ActorsDiffer DEF IndInv, TypeOK, Actors, jobVars, Goto
<1>1. session' = session
  BY DEF TerminateJob, MarkDone, SendDone, DeletePod, DeletePodFails, DeleteKeystore,
         DeleteKeystoreFails, Resume, session
<1>2. CASE MarkDone(a)
  <2> DEFINE j == Target(a)
  <2>1. j \in registered
    BY <1>2 DEF MarkDone, Target, TargetsRegistered, KnownAreRegistered, Terminating
  <2>2. d' = [d EXCEPT ![j] = TRUE] /\ registered' = registered
    BY <1>2 DEF MarkDone
  <2>3. CASE d[j]
    <3>1. d' = d
      BY <2>1, <2>2, <2>3
    <3> QED
      BY <1>1, <2>2, <3>1, SessionStutters
  <2>4. CASE ~d[j]
    <3>1. status[j] = "open"
      BY <2>1, <2>4 DEF status
    <3>2. \A i \in Jobs : d'[i] = (IF i = j THEN TRUE ELSE d[i])
      BY <2>1, <2>2
    <3>3. status' = [i \in Jobs |-> IF i = j THEN "done" ELSE status[i]]
      BY <2>1, <2>2, <3>2 DEF status
    <3>4. status' = [status EXCEPT ![j] = "done"]
      BY <3>3 DEF status
    <3> QED
      BY <1>1, <2>1, <3>1, <3>4 DEF Session!Next, Session!Finish
  <2> QED
    BY <2>3, <2>4
<1>3. CASE ~MarkDone(a)
  BY <1>1, <1>3, SessionStutters
     DEF TerminateJob, SendDone, DeletePod, DeletePodFails, DeleteKeystore, DeleteKeystoreFails
<1> QED
  BY <1>2, <1>3

\* Nothing Handler does by itself, and no timer or Pod, shows in the session.
LEMMA OthersSession ==
  ASSUME IndInv, HandlerStep \/ OtherStep
  PROVE  UNCHANGED Session!vars
<1>1. d' = d /\ registered' = registered
  BY DEF HandlerStep, Update, UpdateIgnored, UpdateTerminates, UpdateExtracts, SweepEnds, OnUpdate,
         OnResync, BeginUpdate, Extract, ExtractOk, ExtractCut, ExtractFails, ExtractNothing,
         CompleteJob, ExtractEnds, OnDelete, OnTombstone, Sweep, OtherStep, TimerStep, StartTimer,
         Timeout, Released, TimerFires, PodProgress, PodVanishes, Interrupt, jobVars
<1>2. pc'[Main] = pc[Main]
  BY ActorsDiffer DEF IndInv, TypeOK, Actors, Goto,
         HandlerStep, Update, UpdateIgnored, UpdateTerminates, UpdateExtracts, SweepEnds, OnUpdate,
         OnResync, BeginUpdate, Extract, ExtractOk, ExtractCut, ExtractFails, ExtractNothing,
         CompleteJob, ExtractEnds, OnDelete, OnTombstone, Sweep, OtherStep, TimerStep, StartTimer,
         Timeout, Released, TimerFires, PodProgress, PodVanishes, Interrupt
<1>3. session' = session
  BY <1>2 DEF session
<1> QED
  BY <1>1, <1>3, SessionStutters

\* runStackDiagnostics keeps what DiagSession promises: a job is finished once
\* and for all, and the call does not return from collecting with one open.
THEOREM ImplementsSession == Spec => IsSession
<1>1. IndInv /\ [Next]_vars => [Session!Next]_Session!vars
  <2> SUFFICES ASSUME IndInv, [Next]_vars
               PROVE  Session!Next \/ UNCHANGED Session!vars
    OBVIOUS
  <2>1. CASE UNCHANGED vars
    <3>1. session' = session
      BY <2>1 DEF vars, session
    <3> QED
      BY <2>1, <3>1, SessionStutters DEF vars, jobVars
  <2>2. CASE Next
    BY <2>2, MainSession, TerminateSession, OthersSession DEF Next, Step
  <2> QED
    BY <2>1, <2>2
<1> QED
  BY <1>1, InitSession, Invariance, PTL DEF Spec, IsSession, Session!Spec
=============================================================================
