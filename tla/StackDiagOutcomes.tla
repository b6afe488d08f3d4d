------------------------- MODULE StackDiagOutcomes -------------------------
(***************************************************************************)
(* What a call of runStackDiagnostics leaves behind, for any set of jobs   *)
(* and any faults: what the archive says of a job, what the cluster keeps  *)
(* of it, and what its extractions come to.                                *)
(***************************************************************************)
EXTENDS StackDiagProofs

\* Whoever is about to mark a job done has seen to its explanation before.
Explained(j) == got[j] \in {"full", "empty"} \/ reported[j]
ExplainedInv ==
  /\ DoneIsExplained
  /\ \A a \in Actors : pc[a] = "mark" => Explained(Target(a))

\* Somebody is still to delete what there is of a job that is done.
At(j, places) == \E a \in Actors : Target(a) = j /\ pc[a] \in places
CleanInv ==
  \A j \in Jobs :
    /\ keystore[j] => j \in WithKeystore
    /\ d[j] =>
         /\ \/ pod[j] \notin LivePhases \/ j \in podFailed
            \/ At(j, {"send", "deletePod"})
         /\ \/ ~keystore[j] \/ j \in keystoreFailed
            \/ At(j, {"send", "deletePod", "deleteKeystore"})

\* A job whose results are all there is done, or the handler marks it next; it
\* is not extracted again.
Complete(j) == got[j] \in {"full", "empty"}
ExtractInv ==
  /\ \A j \in Jobs : Complete(j) => d[j] \/ (pc[Handler] = "mark" /\ target[Handler] = j)
  /\ pc[Handler] = "extract" => ~Complete(target[Handler])

-----------------------------------------------------------------------------
(***************************************************************************)
(* What the archive says of a job.                                         *)
(***************************************************************************)

\* Main reports a job before it terminates it.
LEMMA MainExplains ==
  ASSUME IndInv, ExplainedInv, MainStep
  PROVE  ExplainedInv'
<1> USE ActorsDiffer DEF IndInv, TypeOK, ExplainedInv, DoneIsExplained, Explained, Actors, Target,
            jobVars, resultVars, Goto, Report
<1>1. ASSUME NEW j \in Jobs, Schedule(j) PROVE ExplainedInv'
  BY <1>1 DEF Schedule
<1>2. ASSUME NEW j \in Jobs, Skip(j) PROVE ExplainedInv'
  BY <1>2 DEF Skip
<1>3. ASSUME NEW j \in Jobs, AbortSkipsDone(j) PROVE ExplainedInv'
  BY <1>3 DEF AbortSkipsDone
<1>4. ASSUME NEW j \in Jobs, AbortTerminates(j) PROVE ExplainedInv'
  BY <1>4 DEF AbortTerminates
<1>5. CASE Bail
  BY <1>5 DEF Bail
<1>6. CASE Scheduled
  BY <1>6 DEF Scheduled
<1>7. CASE ListPods
  BY <1>7 DEF ListPods
<1>8. CASE StopInformer
  BY <1>8 DEF StopInformer
<1>9. CASE Return
  BY <1>9 DEF Return
<1>10. CASE Exit
  BY <1>10 DEF Exit
<1> QED
  BY <1>1, <1>2, <1>3, <1>4, <1>5, <1>6, <1>7, <1>8, <1>9, <1>10 DEF MainStep

\* Handler completes a job with all results, or with the error of the stream.
LEMMA HandlerExplains ==
  ASSUME IndInv, ExplainedInv, HandlerStep
  PROVE  ExplainedInv'
<1> USE ActorsDiffer DEF IndInv, TypeOK, ExplainedInv, DoneIsExplained, Explained, Actors, Target,
            jobVars, resultVars, Goto, Report, Forget
<1>1. CASE UpdateIgnored
  BY <1>1 DEF UpdateIgnored
<1>2. CASE UpdateTerminates
  BY <1>2 DEF UpdateTerminates, TargetsRegistered
<1>3. CASE UpdateExtracts
  BY <1>3 DEF UpdateExtracts
<1>4. CASE SweepEnds
  BY <1>4 DEF SweepEnds
<1>5. ASSUME NEW j \in Jobs, OnUpdate(j) PROVE ExplainedInv'
  BY <1>5 DEF OnUpdate, BeginUpdate
<1>6. ASSUME NEW j \in Jobs, OnResync(j) PROVE ExplainedInv'
  BY <1>6 DEF OnResync, BeginUpdate
<1>7. ASSUME NEW j \in Jobs, ExtractOk(j) PROVE ExplainedInv'
  BY <1>7 DEF ExtractOk, CompleteJob, ExtractEnds
<1>8. ASSUME NEW j \in Jobs, ExtractCut(j) PROVE ExplainedInv'
  BY <1>8 DEF ExtractCut, CompleteJob, ExtractEnds
<1>9. ASSUME NEW j \in Jobs, ExtractFails(j) PROVE ExplainedInv'
  BY <1>9 DEF ExtractFails, ExtractEnds
<1>10. ASSUME NEW j \in Jobs, ExtractNothing(j) PROVE ExplainedInv'
  BY <1>10 DEF ExtractNothing, CompleteJob, ExtractEnds
<1>11. ASSUME NEW j \in Jobs, OnDelete(j) PROVE ExplainedInv'
  BY <1>11 DEF OnDelete
<1>12. ASSUME NEW j \in Jobs, OnTombstone(j) PROVE ExplainedInv'
  BY <1>12 DEF OnTombstone
<1>13. ASSUME NEW j \in Jobs, Sweep(j) PROVE ExplainedInv'
  BY <1>13 DEF Sweep
<1> QED
  BY <1>1, <1>2, <1>3, <1>4, <1>5, <1>6, <1>7, <1>8, <1>9, <1>10, <1>11, <1>12, <1>13
     DEF HandlerStep, Update, Extract

\* The timer goroutine logs the timeout before it terminates the job.
LEMMA OtherExplains ==
  ASSUME IndInv, ExplainedInv, OtherStep
  PROVE  ExplainedInv'
<1> USE ActorsDiffer DEF IndInv, TypeOK, ExplainedInv, DoneIsExplained, Explained, Actors, Target,
            jobVars, resultVars, Goto, Report
<1>1. ASSUME NEW j \in Jobs, StartTimer(j) PROVE ExplainedInv'
  BY <1>1 DEF StartTimer
<1>2. ASSUME NEW j \in Jobs, Timeout(j) PROVE ExplainedInv'
  BY <1>2 DEF Timeout
<1>3. ASSUME NEW j \in Jobs, Released(j) PROVE ExplainedInv'
  BY <1>3 DEF Released
<1>4. ASSUME NEW j \in Jobs, TimerFires(j) PROVE ExplainedInv'
  BY <1>4 DEF TimerFires
<1>5. ASSUME NEW j \in Jobs, PodProgress(j) PROVE ExplainedInv'
  BY <1>5 DEF PodProgress
<1>6. ASSUME NEW j \in Jobs, PodVanishes(j) PROVE ExplainedInv'
  BY <1>6 DEF PodVanishes
<1>7. CASE Interrupt
  BY <1>7 DEF Interrupt
<1> QED
  BY <1>1, <1>2, <1>3, <1>4, <1>5, <1>6, <1>7 DEF OtherStep, TimerStep

\* terminateJob marks a job that is explained.
LEMMA TerminateExplains ==
  ASSUME IndInv, ExplainedInv, NEW a \in Actors, TerminateJob(a)
  PROVE  ExplainedInv'
<1> USE ActorsDiffer DEF IndInv, TypeOK, ExplainedInv, DoneIsExplained, Explained, Actors, Target,
            jobVars, resultVars, Goto, Forget, Resume
<1>1. CASE MarkDone(a)
  BY <1>1 DEF MarkDone
<1>2. CASE SendDone(a)
  BY <1>2 DEF SendDone
<1>3. CASE DeletePod(a)
  BY <1>3 DEF DeletePod
<1>4. CASE DeletePodFails(a)
  BY <1>4 DEF DeletePodFails
<1>5. CASE DeleteKeystore(a)
  BY <1>5 DEF DeleteKeystore
<1>6. CASE DeleteKeystoreFails(a)
  BY <1>6 DEF DeleteKeystoreFails
<1> QED
  BY <1>1, <1>2, <1>3, <1>4, <1>5, <1>6 DEF TerminateJob

\* A job that is done has all its results in the archive, or an error.
THEOREM DoneJobsAreExplained == Spec => []DoneIsExplained
<1>1. Init => ExplainedInv
  BY ActorsDiffer DEF Init, ExplainedInv, DoneIsExplained, Actors
<1>2. IndInv /\ ExplainedInv /\ [Next]_vars => ExplainedInv'
  <2>1. IndInv /\ ExplainedInv /\ Next => ExplainedInv'
    BY MainExplains, HandlerExplains, OtherExplains, TerminateExplains DEF Next, Step
  <2>2. ExplainedInv /\ UNCHANGED vars => ExplainedInv'
    BY DEF ExplainedInv, DoneIsExplained, Explained, Target, vars, jobVars, resultVars
  <2> QED
    BY <2>1, <2>2
<1>3. ExplainedInv => DoneIsExplained
  BY DEF ExplainedInv
<1> QED
  BY <1>1, <1>2, <1>3, Invariance, PTL DEF Spec

-----------------------------------------------------------------------------
(***************************************************************************)
(* What the cluster keeps of a job.                                        *)
(***************************************************************************)

\* Nothing changes for a job where nobody moves who has something to delete.
LEMMA CleanStays ==
  ASSUME CleanInv, UNCHANGED <<pod, keystore, d, podFailed, keystoreFailed>>,
         \A a \in Actors : pc[a] \in {"send", "deletePod", "deleteKeystore"} =>
           pc'[a] = pc[a] /\ Target(a)' = Target(a)
  PROVE  CleanInv'
BY DEF CleanInv, At

\* Whoever is through with its job leaves the others to theirs.
LEMMA ForgetsOwn ==
  ASSUME TypeOK, NEW a \in Actors, Forget(a)
  PROVE  \A b \in Actors \ {a} : Target(b)' = Target(b)
<1>1. ASSUME NEW b \in {Main, Handler}, b # a PROVE target'[b] = target[b]
  BY <1>1 DEF TypeOK, Forget
<1> QED
  BY <1>1 DEF Actors, Target

\* Nor does it when somebody is through with a job.
LEMMA CleanEnds ==
  ASSUME TypeOK, CleanInv, UNCHANGED <<pod, d, podFailed>>, keystoreFailed \subseteq keystoreFailed',
         \A j \in Jobs : keystore'[j] => keystore[j],
         NEW a \in Actors, pc[a] = "deleteKeystore", Goto(a, Resume(a)), Forget(a),
         ~keystore'[Target(a)] \/ Target(a) \in keystoreFailed'
  PROVE  CleanInv'
<1>1. \A b \in Actors \ {a} : pc'[b] = pc[b]
  BY DEF TypeOK, Goto
<1>2. \A b \in Actors \ {a} : Target(b)' = Target(b)
  BY ForgetsOwn
<1> QED
  BY <1>1, <1>2 DEF CleanInv, At

\* A job that is scheduled is not done.
LEMMA MainCleans ==
  ASSUME IndInv, CleanInv, MainStep
  PROVE  CleanInv'
<1> USE ActorsDiffer DEF IndInv, TypeOK, KnownAreRegistered, ScheduleLoop, TargetsRegistered, CleanInv,
            At, Actors, Target, LivePhases, Terminating, jobVars, clusterVars, resultVars, Goto, Forget, Resume
<1>1. ASSUME NEW j \in Jobs, Schedule(j) PROVE CleanInv'
  BY <1>1 DEF Schedule
<1>2. ASSUME NEW j \in Jobs, Skip(j) PROVE CleanInv'
  BY <1>2 DEF Skip
<1>3. ASSUME NEW j \in Jobs, AbortSkipsDone(j) PROVE CleanInv'
  BY <1>3 DEF AbortSkipsDone
<1>4. ASSUME NEW j \in Jobs, AbortTerminates(j) PROVE CleanInv'
  BY <1>4 DEF AbortTerminates
<1>5. CASE Bail
  BY <1>5 DEF Bail
<1>6. CASE Scheduled
  BY <1>6 DEF Scheduled
<1>7. CASE ListPods
  <2>1. \A a \in Actors : pc[a] \in {"send", "deletePod", "deleteKeystore"} =>
          pc'[a] = pc[a] /\ Target(a)' = Target(a)
    BY <1>7 DEF ListPods, SchedulingIsOver
  <2> QED
    BY <1>7, <2>1, CleanStays DEF ListPods
<1>8. CASE StopInformer
  BY <1>8 DEF StopInformer
<1>9. CASE Return
  BY <1>9 DEF Return
<1>10. CASE Exit
  BY <1>10 DEF Exit
<1> QED
  BY <1>1, <1>2, <1>3, <1>4, <1>5, <1>6, <1>7, <1>8, <1>9, <1>10
     DEF MainStep

\* Handler works on no job while it cleans up after one.
LEMMA HandlerCleans ==
  ASSUME IndInv, CleanInv, HandlerStep
  PROVE  CleanInv'
<1> USE ActorsDiffer DEF IndInv, TypeOK, KnownAreRegistered, ScheduleLoop, TargetsRegistered, CleanInv,
            At, Actors, Target, LivePhases, Terminating, jobVars, clusterVars, resultVars, Goto, Forget, Resume
<1>1. CASE UpdateIgnored
  BY <1>1 DEF UpdateIgnored
<1>2. CASE UpdateTerminates
  BY <1>2 DEF UpdateTerminates
<1>3. CASE UpdateExtracts
  BY <1>3 DEF UpdateExtracts
<1>4. CASE SweepEnds
  BY <1>4 DEF SweepEnds
<1>5. ASSUME NEW j \in Jobs, OnUpdate(j) PROVE CleanInv'
  <2>1. \A a \in Actors : pc[a] \in {"send", "deletePod", "deleteKeystore"} =>
          pc'[a] = pc[a] /\ Target(a)' = Target(a)
    BY <1>5 DEF OnUpdate, BeginUpdate
  <2> QED
    BY <1>5, <2>1, CleanStays DEF OnUpdate, BeginUpdate
<1>6. ASSUME NEW j \in Jobs, OnResync(j) PROVE CleanInv'
  <2>1. \A a \in Actors : pc[a] \in {"send", "deletePod", "deleteKeystore"} =>
          pc'[a] = pc[a] /\ Target(a)' = Target(a)
    BY <1>6 DEF OnResync, BeginUpdate
  <2> QED
    BY <1>6, <2>1, CleanStays DEF OnResync, BeginUpdate
<1>7. ASSUME NEW j \in Jobs, ExtractOk(j) PROVE CleanInv'
  BY <1>7 DEF ExtractOk, CompleteJob, ExtractEnds
<1>8. ASSUME NEW j \in Jobs, ExtractCut(j) PROVE CleanInv'
  <2>1. \A a \in Actors : pc[a] \in {"send", "deletePod", "deleteKeystore"} =>
          pc'[a] = pc[a] /\ Target(a)' = Target(a)
    BY <1>8 DEF ExtractCut, CompleteJob, ExtractEnds
  <2> QED
    BY <1>8, <2>1, CleanStays DEF ExtractCut, CompleteJob, ExtractEnds
<1>9. ASSUME NEW j \in Jobs, ExtractFails(j) PROVE CleanInv'
  BY <1>9 DEF ExtractFails, ExtractEnds
<1>10. ASSUME NEW j \in Jobs, ExtractNothing(j) PROVE CleanInv'
  <2>1. \A a \in Actors : pc[a] \in {"send", "deletePod", "deleteKeystore"} =>
          pc'[a] = pc[a] /\ Target(a)' = Target(a)
    BY <1>10 DEF ExtractNothing, CompleteJob, ExtractEnds
  <2> QED
    BY <1>10, <2>1, CleanStays DEF ExtractNothing, CompleteJob, ExtractEnds
<1>11. ASSUME NEW j \in Jobs, OnDelete(j) PROVE CleanInv'
  BY <1>11 DEF OnDelete
<1>12. ASSUME NEW j \in Jobs, OnTombstone(j) PROVE CleanInv'
  BY <1>12 DEF OnTombstone
<1>13. ASSUME NEW j \in Jobs, Sweep(j) PROVE CleanInv'
  BY <1>13 DEF Sweep
<1> QED
  BY <1>1, <1>2, <1>3, <1>4, <1>5, <1>6, <1>7, <1>8, <1>9, <1>10, <1>11, <1>12, <1>13
     DEF HandlerStep, Update, Extract

\* A Pod that is gone stays so.
LEMMA OtherCleans ==
  ASSUME IndInv, CleanInv, OtherStep
  PROVE  CleanInv'
<1> USE ActorsDiffer DEF IndInv, TypeOK, KnownAreRegistered, ScheduleLoop, TargetsRegistered, CleanInv,
            At, Actors, Target, LivePhases, Terminating, jobVars, clusterVars, resultVars, Goto, Forget, Resume
<1>1. ASSUME NEW j \in Jobs, StartTimer(j) PROVE CleanInv'
  BY <1>1 DEF StartTimer
<1>2. ASSUME NEW j \in Jobs, Timeout(j) PROVE CleanInv'
  BY <1>2 DEF Timeout
<1>3. ASSUME NEW j \in Jobs, Released(j) PROVE CleanInv'
  BY <1>3 DEF Released
<1>4. ASSUME NEW j \in Jobs, TimerFires(j) PROVE CleanInv'
  BY <1>4 DEF TimerFires
<1>5. ASSUME NEW j \in Jobs, PodProgress(j) PROVE CleanInv'
  BY <1>5 DEF PodProgress
<1>6. ASSUME NEW j \in Jobs, PodVanishes(j) PROVE CleanInv'
  BY <1>6 DEF PodVanishes
<1>7. CASE Interrupt
  BY <1>7 DEF Interrupt
<1> QED
  BY <1>1, <1>2, <1>3, <1>4, <1>5, <1>6, <1>7
     DEF OtherStep, TimerStep

\* Whoever marks a job done goes on to delete its Pod and its Secret.
LEMMA TerminateCleans ==
  ASSUME IndInv, CleanInv, NEW a \in Actors, TerminateJob(a)
  PROVE  CleanInv'
<1> USE ActorsDiffer DEF IndInv, TypeOK, KnownAreRegistered, ScheduleLoop, TargetsRegistered, CleanInv,
            At, Actors, Target, LivePhases, Terminating, jobVars, clusterVars, resultVars, Goto, Forget, Resume
<1>1. CASE MarkDone(a)
  BY <1>1 DEF MarkDone
<1>2. CASE SendDone(a)
  BY <1>2 DEF SendDone
<1>3. CASE DeletePod(a)
  BY <1>3 DEF DeletePod
<1>4. CASE DeletePodFails(a)
  BY <1>4 DEF DeletePodFails
<1>5. CASE DeleteKeystore(a)
  <2>1. /\ UNCHANGED <<pod, d, podFailed>> /\ pc[a] = "deleteKeystore"
        /\ keystoreFailed \subseteq keystoreFailed'
        /\ \A j \in Jobs : keystore'[j] => keystore[j]
        /\ ~keystore'[Target(a)] \/ Target(a) \in keystoreFailed'
    BY <1>5 DEF DeleteKeystore
  <2>2. Goto(a, Resume(a)) /\ Forget(a)
    BY <1>5 DEF DeleteKeystore
  <2> HIDE DEF TypeOK, CleanInv, Target, Goto, Forget, Resume
  <2> QED
    BY <2>1, <2>2, CleanEnds
<1>6. CASE DeleteKeystoreFails(a)
  <2>1. /\ UNCHANGED <<pod, d, podFailed>> /\ pc[a] = "deleteKeystore"
        /\ keystoreFailed' = keystoreFailed \cup ({Target(a)} \cap WithKeystore)
    BY <1>6 DEF DeleteKeystoreFails
  <2>2. keystore' = keystore \/ keystore' = [keystore EXCEPT ![Target(a)] = FALSE]
    BY <1>6 DEF DeleteKeystoreFails
  <2>3. Target(a) \in Jobs
    BY <2>1
  <2>4. \A j \in Jobs : keystore'[j] => keystore[j]
    <3>1. CASE keystore' = keystore
      BY <3>1
    <3>2. CASE keystore' = [keystore EXCEPT ![Target(a)] = FALSE]
      BY <3>2
    <3> QED
      BY <2>2, <3>1, <3>2
  <2>5. ~keystore'[Target(a)] \/ Target(a) \in keystoreFailed'
    <3>1. keystore[Target(a)] => Target(a) \in WithKeystore
      BY <2>3
    <3> QED
      BY <2>1, <2>3, <2>4, <3>1
  <2>6. Goto(a, Resume(a)) /\ Forget(a)
    BY <1>6 DEF DeleteKeystoreFails
  <2> HIDE DEF TypeOK, CleanInv, Target, Goto, Forget, Resume
  <2> QED
    BY <2>1, <2>4, <2>5, <2>6, CleanEnds
<1> QED
  BY <1>1, <1>2, <1>3, <1>4, <1>5, <1>6
     DEF TerminateJob

\* Nothing is left of a job that is done, unless the deletion of just that returned an
\* error: one that fails keeps no other from being tried.
THEOREM DoneJobsAreClean == Spec => []DoneMeansClean
<1>1. Init => CleanInv
  BY DEF Init, CleanInv
<1>2. IndInv /\ CleanInv /\ [Next]_vars => CleanInv'
  <2>1. IndInv /\ CleanInv /\ Next => CleanInv'
    BY MainCleans, HandlerCleans, OtherCleans, TerminateCleans DEF Next, Step
  <2>2. CleanInv /\ UNCHANGED vars => CleanInv'
    BY DEF CleanInv, At, Target, vars, jobVars, clusterVars, resultVars
  <2> QED
    BY <2>1, <2>2
<1>3. CleanInv => DoneMeansClean
  BY DEF CleanInv, DoneMeansClean, Cleaning, At
<1> QED
  BY <1>1, <1>2, <1>3, Invariance, PTL DEF Spec

\* When the call comes back from its jobs, by itself or after an interrupt, what is
\* left of one in the cluster is being deleted, or its own deletion failed: this is
\* what abortAllJobs achieves of "stop the jobs" (InterruptedIsClean asks for more).
HasCause(j) ==
  \/ Cleaning(j)
  \/ /\ pod[j] \in LivePhases => j \in podFailed
     /\ keystore[j] => j \in keystoreFailed
THEOREM LeftoversHaveCause ==
  Spec => [](pc[Main] = "returned" => \A j \in registered : HasCause(j))
<1>1. IndInv /\ DoneMeansClean => (pc[Main] = "returned" => \A j \in registered : HasCause(j))
  BY DEF IndInv, TypeOK, ReturnedAllDone, DoneMeansClean, HasCause
<1> QED
  BY <1>1, Invariance, DoneJobsAreClean, PTL

-----------------------------------------------------------------------------
(***************************************************************************)
(* The extractions of a job.                                               *)
(***************************************************************************)

\* Main extracts nothing.
LEMMA MainExtracts ==
  ASSUME IndInv, ExtractInv, MainStep
  PROVE  ExtractInv'
<1> USE ActorsDiffer DEF IndInv, TypeOK, SchedulingIsOver, TargetsRegistered, ExtractInv, Complete,
            Actors, Target, Terminating, jobVars, resultVars, Goto, Forget, Resume
<1>1. ASSUME NEW j \in Jobs, Schedule(j) PROVE ExtractInv'
  BY <1>1 DEF Schedule
<1>2. ASSUME NEW j \in Jobs, Skip(j) PROVE ExtractInv'
  BY <1>2 DEF Skip
<1>3. ASSUME NEW j \in Jobs, AbortSkipsDone(j) PROVE ExtractInv'
  BY <1>3 DEF AbortSkipsDone
<1>4. ASSUME NEW j \in Jobs, AbortTerminates(j) PROVE ExtractInv'
  BY <1>4 DEF AbortTerminates
<1>5. CASE Bail
  BY <1>5 DEF Bail
<1>6. CASE Scheduled
  BY <1>6 DEF Scheduled
<1>7. CASE ListPods
  BY <1>7 DEF ListPods
<1>8. CASE StopInformer
  BY <1>8 DEF StopInformer
<1>9. CASE Return
  BY <1>9 DEF Return
<1>10. CASE Exit
  BY <1>10 DEF Exit
<1> QED
  BY <1>1, <1>2, <1>3, <1>4, <1>5, <1>6, <1>7, <1>8, <1>9, <1>10
     DEF MainStep

\* Handler looks at the flag before it extracts, and completes a job at once.
LEMMA HandlerExtracts ==
  ASSUME IndInv, ExtractInv, HandlerStep
  PROVE  ExtractInv'
<1> USE ActorsDiffer DEF IndInv, TypeOK, SchedulingIsOver, TargetsRegistered, ExtractInv, Complete,
            Actors, Target, Terminating, jobVars, resultVars, Goto, Forget, Resume
<1>1. CASE UpdateIgnored
  BY <1>1 DEF UpdateIgnored
<1>2. CASE UpdateTerminates
  BY <1>2 DEF UpdateTerminates
<1>3. CASE UpdateExtracts
  BY <1>3 DEF UpdateExtracts
<1>4. CASE SweepEnds
  BY <1>4 DEF SweepEnds
<1>5. ASSUME NEW j \in Jobs, OnUpdate(j) PROVE ExtractInv'
  BY <1>5 DEF OnUpdate, BeginUpdate
<1>6. ASSUME NEW j \in Jobs, OnResync(j) PROVE ExtractInv'
  BY <1>6 DEF OnResync, BeginUpdate
<1>7. ASSUME NEW j \in Jobs, ExtractOk(j) PROVE ExtractInv'
  BY <1>7 DEF ExtractOk, CompleteJob, ExtractEnds
<1>8. ASSUME NEW j \in Jobs, ExtractCut(j) PROVE ExtractInv'
  BY <1>8 DEF ExtractCut, CompleteJob, ExtractEnds
<1>9. ASSUME NEW j \in Jobs, ExtractFails(j) PROVE ExtractInv'
  BY <1>9 DEF ExtractFails, ExtractEnds
<1>10. ASSUME NEW j \in Jobs, ExtractNothing(j) PROVE ExtractInv'
  BY <1>10 DEF ExtractNothing, CompleteJob, ExtractEnds
<1>11. ASSUME NEW j \in Jobs, OnDelete(j) PROVE ExtractInv'
  BY <1>11 DEF OnDelete
<1>12. ASSUME NEW j \in Jobs, OnTombstone(j) PROVE ExtractInv'
  BY <1>12 DEF OnTombstone
<1>13. ASSUME NEW j \in Jobs, Sweep(j) PROVE ExtractInv'
  BY <1>13 DEF Sweep
<1> QED
  BY <1>1, <1>2, <1>3, <1>4, <1>5, <1>6, <1>7, <1>8, <1>9, <1>10, <1>11, <1>12, <1>13
     DEF HandlerStep, Update, Extract

\* Nor do the timers.
LEMMA OtherExtracts ==
  ASSUME IndInv, ExtractInv, OtherStep
  PROVE  ExtractInv'
<1> USE ActorsDiffer DEF IndInv, TypeOK, SchedulingIsOver, TargetsRegistered, ExtractInv, Complete,
            Actors, Target, Terminating, jobVars, resultVars, Goto, Forget, Resume
<1>1. ASSUME NEW j \in Jobs, StartTimer(j) PROVE ExtractInv'
  BY <1>1 DEF StartTimer
<1>2. ASSUME NEW j \in Jobs, Timeout(j) PROVE ExtractInv'
  BY <1>2 DEF Timeout
<1>3. ASSUME NEW j \in Jobs, Released(j) PROVE ExtractInv'
  BY <1>3 DEF Released
<1>4. ASSUME NEW j \in Jobs, TimerFires(j) PROVE ExtractInv'
  BY <1>4 DEF TimerFires
<1>5. ASSUME NEW j \in Jobs, PodProgress(j) PROVE ExtractInv'
  BY <1>5 DEF PodProgress
<1>6. ASSUME NEW j \in Jobs, PodVanishes(j) PROVE ExtractInv'
  BY <1>6 DEF PodVanishes
<1>7. CASE Interrupt
  BY <1>7 DEF Interrupt
<1> QED
  BY <1>1, <1>2, <1>3, <1>4, <1>5, <1>6, <1>7
     DEF OtherStep, TimerStep

\* The flag of a job that is complete is set before Handler turns to another.
LEMMA TerminateExtracts ==
  ASSUME IndInv, ExtractInv, NEW a \in Actors, TerminateJob(a)
  PROVE  ExtractInv'
<1> USE ActorsDiffer DEF IndInv, TypeOK, SchedulingIsOver, TargetsRegistered, ExtractInv, Complete,
            Actors, Target, Terminating, jobVars, resultVars, Goto, Forget, Resume
<1>1. CASE MarkDone(a)
  BY <1>1 DEF MarkDone
<1>2. CASE SendDone(a)
  BY <1>2 DEF SendDone
<1>3. CASE DeletePod(a)
  BY <1>3 DEF DeletePod
<1>4. CASE DeletePodFails(a)
  BY <1>4 DEF DeletePodFails
<1>5. CASE DeleteKeystore(a)
  BY <1>5 DEF DeleteKeystore
<1>6. CASE DeleteKeystoreFails(a)
  BY <1>6 DEF DeleteKeystoreFails
<1> QED
  BY <1>1, <1>2, <1>3, <1>4, <1>5, <1>6
     DEF TerminateJob

\* The report on a job stays.
LEMMA ReportStays ==
  ASSUME IndInv, Step, NEW j \in Jobs
  PROVE  reported'[j] \in {reported[j], TRUE}
<1> USE DEF IndInv, TypeOK, Report, resultVars
<1>1. CASE MainStep
  BY <1>1 DEF MainStep, Schedule, Skip, AbortSkipsDone, AbortTerminates, Bail, Scheduled, ListPods,
     StopInformer, Return, Exit
<1>2. CASE HandlerStep
  BY <1>2 DEF HandlerStep, Update, UpdateIgnored, UpdateTerminates, UpdateExtracts, SweepEnds,
     OnUpdate, OnResync, BeginUpdate, Extract, ExtractOk, ExtractCut, ExtractFails, ExtractNothing,
     CompleteJob, ExtractEnds, OnDelete, OnTombstone, Sweep
<1>3. CASE OtherStep
  BY <1>3 DEF OtherStep, TimerStep, StartTimer, Timeout, Released, TimerFires, PodProgress,
     PodVanishes, Interrupt
<1>4. ASSUME NEW a \in Actors, TerminateJob(a) PROVE reported'[j] = reported[j]
  BY <1>4 DEF TerminateJob, MarkDone, SendDone, DeletePod, DeletePodFails, DeleteKeystore,
     DeleteKeystoreFails
<1> QED
  BY <1>1, <1>2, <1>3, <1>4 DEF Step

\* An extraction is begun or ended by Handler alone, and got is its result.
LEMMA OnlyHandlerExtracts ==
  ASSUME IndInv, Step, ~HandlerStep
  PROVE  /\ got' = got
         /\ pc[Handler] = "extract" <=> pc'[Handler] = "extract"
         /\ pc[Handler] = "extract" => target'[Handler] = target[Handler]
<1> USE ActorsDiffer DEF IndInv, TypeOK, SchedulingIsOver, Actors, Terminating, resultVars, Goto, Forget,
            Resume
<1>1. CASE MainStep
  BY <1>1 DEF MainStep, Schedule, Skip, AbortSkipsDone, AbortTerminates, Bail, Scheduled, ListPods,
     StopInformer, Return, Exit
<1>2. CASE OtherStep
  BY <1>2 DEF OtherStep, TimerStep, StartTimer, Timeout, Released, TimerFires, PodProgress,
     PodVanishes, Interrupt
<1>3. ASSUME NEW a \in Actors, TerminateJob(a)
      PROVE  /\ got' = got
             /\ pc[Handler] = "extract" <=> pc'[Handler] = "extract"
             /\ pc[Handler] = "extract" => target'[Handler] = target[Handler]
  BY <1>3 DEF TerminateJob, MarkDone, SendDone, DeletePod, DeletePodFails, DeleteKeystore,
     DeleteKeystoreFails
<1> QED
  BY <1>1, <1>2, <1>3 DEF Step

\* What Handler does between two extractions.
LEMMA HandlerBetween ==
  ASSUME IndInv, HandlerStep, \A i \in Jobs : ~Extract(i)
  PROVE  /\ got' = got /\ pc[Handler] # "extract"
         /\ pc'[Handler] = "extract" => UpdateExtracts
<1> USE ActorsDiffer DEF IndInv, TypeOK, Actors, Terminating, resultVars, Goto
<1> QED
  BY DEF HandlerStep, Update, UpdateIgnored, UpdateTerminates, UpdateExtracts, SweepEnds,
     OnUpdate, OnResync, BeginUpdate, OnDelete, OnTombstone, Sweep

\* An extraction comes back with all the Pod had, or with an error.
LEMMA ExtractionEnds ==
  ASSUME IndInv, ExtractInv, NEW i \in Jobs, Extract(i)
  PROVE  /\ pc[Handler] = "extract" /\ target[Handler] = i /\ pc'[Handler] # "extract"
         /\ got[i] \in {"nothing", "partial"}
         /\ \E what \in {"partial", "full", got[i]} \cup (IF got[i] = "nothing" THEN {"empty"} ELSE {}) :
              /\ got' = [got EXCEPT ![i] = what]
              /\ what \in {"full", "empty"} \/ reported'[i]
<1> USE ActorsDiffer DEF IndInv, TypeOK, Actors, ExtractInv, Complete, CompleteJob, ExtractEnds, Goto,
            Report
<1>1. CASE ExtractOk(i)
  BY <1>1 DEF ExtractOk
<1>2. CASE ExtractCut(i)
  <2>1. PICK what \in {got[i], "partial"} : CompleteJob(i, what)
    BY <1>2 DEF ExtractCut
  <2>2. got[i] \in {"nothing", "partial"}
    BY <2>1
  <2> QED
    BY <1>2, <2>1, <2>2 DEF ExtractCut
<1>3. CASE ExtractFails(i)
  BY <1>3 DEF ExtractFails
<1>4. CASE ExtractNothing(i)
  BY <1>4 DEF ExtractNothing
<1> QED
  BY <1>1, <1>2, <1>3, <1>4 DEF Extract

\* The ranks of what there is of the results.
LEMMA Ranks ==
  ASSUME NEW j
  PROVE  /\ DOMAIN Ext(j)!Rank = {"nothing", "partial", "full", "empty"}
         /\ Ext(j)!Rank["nothing"] = 0 /\ Ext(j)!Rank["partial"] = 1
         /\ Ext(j)!Rank["full"] = 2 /\ Ext(j)!Rank["empty"] = 2
BY DEF Ext!Rank

\* Every step of the call is one of the job's extraction, a report, or none.
LEMMA StepExtraction ==
  ASSUME IndInv, ExtractInv, Step, NEW j \in Jobs
  PROVE  [Ext(j)!Next]_(Ext(j)!vars)
<1> DEFINE Busy == pc[Handler] = "extract" /\ target[Handler] = j
<1>0. got[j] \in {"nothing", "partial", "full", "empty"}
  BY DEF IndInv, TypeOK
<1>r. reported'[j] \in {reported[j], TRUE}
  BY ReportStays
<1>1. ASSUME NEW i \in Jobs, Extract(i) PROVE [Ext(j)!Next]_(Ext(j)!vars)
  <2>1. CASE i = j
    <3>1. Busy /\ ~Busy'
      BY <1>1, <2>1, ExtractionEnds
    <3>2. PICK what \in {"partial", "full", got[i]} \cup (IF got[i] = "nothing" THEN {"empty"} ELSE {}) :
            got' = [got EXCEPT ![i] = what] /\ (what \in {"full", "empty"} \/ reported'[i])
      BY <1>1, ExtractionEnds
    <3>3. got'[j] = what
      BY <2>1, <3>2 DEF IndInv, TypeOK
    <3>4. got[j] \in {"nothing", "partial"}
      BY <1>1, <2>1, ExtractionEnds
    <3>5. Ext(j)!Grows
      <4>1. what \in {"partial", "full", "nothing", "empty"}
        BY <2>1, <3>2, <3>4
      <4>2. got[j] = "partial" => what \in {"partial", "full"}
        BY <2>1, <3>2
      <4>3. what \in DOMAIN Ext(j)!Rank /\ Ext(j)!Rank[got[j]] <= Ext(j)!Rank[what]
        BY <3>4, <4>1, <4>2, Ranks
      <4> QED
        BY <1>r, <3>3, <4>3 DEF Ext!Grows
    <3> QED
      BY <2>1, <3>1, <3>2, <3>3, <3>5 DEF Ext!Next, Ext!End
  <2>2. CASE i # j
    <3>1. got'[j] = got[j] /\ ~Busy /\ ~Busy'
      BY <1>1, <2>2, ExtractionEnds DEF IndInv, TypeOK
    <3> QED
      BY <1>r, <3>1 DEF Ext!Next, Ext!Report, Ext!vars
  <2> QED
    BY <2>1, <2>2
<1>2. CASE HandlerStep /\ \A i \in Jobs : ~Extract(i)
  <2>1. got' = got /\ ~Busy
    BY <1>2, HandlerBetween
  <2>2. CASE Busy'
    <3>1. reported' = reported
      BY <1>2, <2>2, HandlerBetween DEF UpdateExtracts, resultVars
    <3> QED
      BY <2>1, <2>2, <3>1 DEF Ext!Next, Ext!Begin
  <2>3. CASE ~Busy'
    BY <1>r, <2>1, <2>3 DEF Ext!Next, Ext!Report, Ext!vars
  <2> QED
    BY <2>2, <2>3
<1>3. CASE ~HandlerStep
  <2>1. got' = got /\ Busy' = Busy
    BY <1>3, OnlyHandlerExtracts
  <2> QED
    BY <1>r, <2>1 DEF Ext!Next, Ext!Report, Ext!vars
<1> QED
  BY <1>1, <1>2, <1>3

\* runStackDiagnostics extracts as Extraction promises: its callers can rely on
\* what CopyStream is checked for.
THEOREM ImplementsExtraction == Spec => IsExtraction
<1>1. Init => ExtractInv /\ \A j \in Jobs : Ext(j)!Init
  BY ActorsDiffer DEF Init, ExtractInv, Complete, Ext!Init, Actors
<1>2. IndInv /\ ExtractInv /\ [Next]_vars => ExtractInv'
  <2>1. IndInv /\ ExtractInv /\ Next => ExtractInv'
    BY MainExtracts, HandlerExtracts, OtherExtracts, TerminateExtracts DEF Next, Step
  <2>2. ExtractInv /\ UNCHANGED vars => ExtractInv'
    BY DEF ExtractInv, Complete, vars, jobVars, resultVars
  <2> QED
    BY <2>1, <2>2
<1>3. IndInv /\ ExtractInv /\ [Next]_vars => [\A j \in Jobs : [Ext(j)!Next]_(Ext(j)!vars)]_vars
  BY StepExtraction DEF Next
<1> QED
  BY <1>1, <1>2, <1>3, Invariance, PTL DEF Spec, IsExtraction
=============================================================================
