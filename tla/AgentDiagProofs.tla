-------------------------- MODULE AgentDiagProofs --------------------------
(***************************************************************************)
(* Proofs about AgentDiag, for any set of Pods and any concurrency.        *)
(***************************************************************************)
EXTENDS AgentDiag, TLAPS

-----------------------------------------------------------------------------
(***************************************************************************)
(* Sequences: what the steps do to jobs and to the channel.                *)
(***************************************************************************)

\* Appending keeps the elements where they are and adds one at the end.
LEMMA AppendedElements ==
  ASSUME NEW S, NEW s \in Seq(S), NEW e \in S
  PROVE  /\ Append(s, e) \in Seq(S)
         /\ Append(s, e) # <<>>
         /\ Len(Append(s, e)) = Len(s) + 1
         /\ DOMAIN Append(s, e) = DOMAIN s \cup {Len(s) + 1}
         /\ \A i \in DOMAIN s : Append(s, e)[i] = s[i]
         /\ Append(s, e)[Len(s) + 1] = e
  OBVIOUS

\* The tail of a sequence that is not empty holds its other elements, in order.
LEMMA TailElements ==
  ASSUME NEW S, NEW s \in Seq(S), s # <<>>
  PROVE  /\ Tail(s) \in Seq(S)
         /\ Head(s) = s[1] /\ Head(s) \in S /\ 1 \in DOMAIN s
         /\ Len(s) \in Nat /\ Len(Tail(s)) = Len(s) - 1
         /\ \A i \in DOMAIN Tail(s) : i + 1 \in DOMAIN s /\ Tail(s)[i] = s[i + 1]
         /\ \A i \in DOMAIN s : i # 1 => i - 1 \in DOMAIN Tail(s) /\ Tail(s)[i - 1] = s[i]
  OBVIOUS

\* The indices of a sequence are the numbers up to its length.
LEMMA Indices ==
  ASSUME NEW S, NEW s \in Seq(S)
  PROVE  /\ Len(s) \in Nat /\ DOMAIN s = 1..Len(s)
         /\ \A i \in DOMAIN s : s[i] \in S
         /\ s = <<>> <=> Len(s) = 0
  OBVIOUS

-----------------------------------------------------------------------------
(***************************************************************************)
(* The inductive invariant.                                                *)
(***************************************************************************)

\* The invariant holds initially.
LEMMA InitInv == Init => IndInv
<1> SUFFICES ASSUME Init PROVE IndInv
  OBVIOUS
<1>1. jobs \in Seq(Pods) /\ workCh \in Seq(Pods) /\ DOMAIN jobs = {} /\ DOMAIN workCh = {}
      /\ Len(jobs) = 0 /\ Len(workCh) = 0
  BY DEF Init
<1>2. Capacity \in Nat
  BY <1>1, ConcurrencyValid DEF Capacity, NumWorkers
<1>3. TypeOK
  <2>1. Len(workCh) <= Capacity /\ next \in Nat \ {0} /\ next <= Len(jobs) + 1
    <3>1. next = 1
      BY DEF Init
    <3> QED
      BY <3>1, <1>1, <1>2
  <2>2. /\ worker \in [Workers -> Pods \cup {"absent", "idle", "exited"}]
        /\ exec \in [Pods -> {"none", "running", "ok", "failed"}]
        /\ remote \in [Pods -> {"none", "running", "file"}]
        /\ copied \in [Pods -> {"nothing", "partial", "full"}]
    BY DEF Init
  <2> QED
    BY <1>1, <2>1, <2>2 DEF Init, TypeOK, PC
<1>4. JobsDistinct /\ PoolPhases /\ NotDropped /\ IndexValid /\ AccountedSoFar
  BY <1>1 DEF Init, JobsDistinct, PoolPhases, NotDropped, IndexValid, AccountedSoFar, JobIndex
<1>5. JobPlaces /\ OneWorkerPerJob
  BY <1>1, PodsAreNotStates DEF Init, JobPlaces, OneWorkerPerJob
<1> QED
  BY <1>3, <1>4, <1>5 DEF Init, IndInv, CollectAfterExec, Collecting, CopiedWasExecuted,
     EveryJobAccounted

\* Selecting Pods keeps it.
LEMMA SelectInv == IndInv /\ SelectStep => IndInv'
<1> SUFFICES ASSUME IndInv, SelectStep PROVE IndInv'
  OBVIOUS
<1> USE ConcurrencyValid, PodsAreNotStates DEF IndInv, TypeOK, JobsDistinct, PoolPhases, JobPlaces, NotDropped,
        IndexValid, AccountedSoFar, AccountedFor, CollectAfterExec, Collecting, CopiedWasExecuted,
        OneWorkerPerJob, EveryJobAccounted, JobIndex, PC, Capacity, NumWorkers, Workers,
        poolVars, resultVars
<1>1. ASSUME NEW p \in Pods, Select(p) PROVE IndInv'
  BY <1>1, AppendedElements, Indices DEF Select
<1>2. ASSUME NEW p \in Pods, SkipPod(p) PROVE IndInv'
  BY <1>2 DEF SkipPod
<1>3. ASSUME NEW p \in Pods, RejectPod(p) PROVE IndInv'
  BY <1>3 DEF RejectPod
<1>4. CASE ListFails
  BY <1>4 DEF ListFails
<1>5. CASE StartWorkers
  BY <1>5, Indices DEF StartWorkers
<1> QED
  BY <1>1, <1>2, <1>3, <1>4, <1>5 DEF SelectStep

\* Sending a job keeps it: the job leaves those still to be sent and waits in
\* the channel, where it was not.
LEMMA SendOneInv == IndInv /\ Send => IndInv'
<1> SUFFICES ASSUME IndInv, Send PROVE IndInv'
  OBVIOUS
<1>1. /\ pc = "send" /\ pc' = "send" /\ next' = next + 1
      /\ UNCHANGED <<unvisited, jobs, closed, worker, exec, remote, copied, reported, interrupted>>
  BY DEF Send, resultVars
<1>2. next \in Nat /\ next <= Len(jobs) /\ next \in DOMAIN jobs /\ DOMAIN jobs = 1..Len(jobs)
      /\ \A i \in DOMAIN jobs : jobs[i] \in Pods
  BY Indices DEF Send, IndInv, TypeOK
<1>3. /\ workCh \in Seq(Pods) /\ workCh' \in Seq(Pods) /\ Len(workCh') = Len(workCh) + 1
      /\ DOMAIN workCh' = DOMAIN workCh \cup {Len(workCh) + 1}
      /\ \A k \in DOMAIN workCh : workCh'[k] = workCh[k]
      /\ workCh'[Len(workCh) + 1] = jobs[next]
      /\ Len(workCh) \in Nat /\ DOMAIN workCh = 1..Len(workCh)
  BY <1>2, AppendedElements, Indices DEF Send, IndInv, TypeOK
<1>4. /\ \A i, j \in DOMAIN jobs : jobs[i] = jobs[j] => i = j
      /\ \A i \in DOMAIN jobs : i >= next => exec[jobs[i]] = "none"
      /\ \A i \in DOMAIN jobs : i >= next => \A k \in DOMAIN workCh : workCh[k] # jobs[i]
      /\ \A i, j \in DOMAIN workCh : workCh[i] = workCh[j] => i = j
      /\ \A i \in DOMAIN workCh : exec[workCh[i]] = "none"
      /\ \A i \in DOMAIN jobs : i < next /\ exec[jobs[i]] = "none" =>
            \E k \in DOMAIN workCh : workCh[k] = jobs[i]
  BY <1>1 DEF IndInv, JobsDistinct, JobPlaces, NotDropped, OneWorkerPerJob, JobIndex
<1>5. TypeOK'
  BY <1>1, <1>2, <1>3, ConcurrencyValid DEF Send, IndInv, TypeOK, Capacity, NumWorkers, resultVars
<1>6. JobPlaces'
  <2>1. \A i, j \in DOMAIN workCh' : workCh'[i] = workCh'[j] => i = j
    BY <1>2, <1>3, <1>4
  <2>2. ASSUME NEW i \in DOMAIN jobs, i >= next + 1
        PROVE  exec[jobs[i]] = "none" /\ \A k \in DOMAIN workCh' : workCh'[k] # jobs[i]
    <3>1. i >= next /\ i # next
      BY <2>2, <1>2
    <3>2. jobs[i] # jobs[next]
      BY <3>1, <1>2, <1>4
    <3> QED
      BY <3>1, <3>2, <1>3, <1>4
  <2> QED
    BY <2>1, <2>2, <1>1 DEF IndInv, JobPlaces, JobIndex
<1>7. NotDropped'
  <2>1. ASSUME NEW i \in DOMAIN jobs, i < next + 1, exec[jobs[i]] = "none"
        PROVE  \E k \in DOMAIN workCh' : workCh'[k] = jobs[i]
    <3>1. CASE i = next
      BY <3>1, <1>3
    <3>2. CASE i # next
      <4>1. i < next
        BY <3>2, <2>1, <1>2
      <4> QED
        BY <4>1, <2>1, <1>3, <1>4
    <3> QED
      BY <3>1, <3>2
  <2> QED
    BY <2>1, <1>1 DEF NotDropped, Collecting, JobIndex
<1>8. OneWorkerPerJob'
  <2>1. \A k \in DOMAIN workCh' : exec[workCh'[k]] = "none"
    BY <1>2, <1>3, <1>4
  <2> QED
    BY <2>1, <1>1 DEF IndInv, OneWorkerPerJob
<1>9. JobsDistinct'
  BY <1>1 DEF IndInv, JobsDistinct, JobIndex
<1>10. PoolPhases'
  BY <1>1 DEF IndInv, PoolPhases, NumWorkers
<1> QED
  BY <1>1, <1>5, <1>6, <1>7, <1>8, <1>9, <1>10 DEF IndInv, IndexValid, AccountedSoFar,
     CollectAfterExec, Collecting, CopiedWasExecuted, EveryJobAccounted

\* So does sending the jobs and waiting for the workers.
LEMMA SendInv == IndInv /\ SendStep => IndInv'
<1> SUFFICES ASSUME IndInv, SendStep PROVE IndInv'
  OBVIOUS
<1> USE ConcurrencyValid, PodsAreNotStates DEF IndInv, TypeOK, JobsDistinct, PoolPhases, JobPlaces, NotDropped,
        IndexValid, AccountedSoFar, AccountedFor, CollectAfterExec, Collecting, CopiedWasExecuted,
        OneWorkerPerJob, EveryJobAccounted, JobIndex, PC, Capacity, NumWorkers, Workers,
        poolVars, resultVars
<1>1. CASE Send
  BY <1>1, SendOneInv
<1>2. CASE CloseChannel
  BY <1>2, Indices DEF CloseChannel
<1>3. CASE WaitForWorkers
  BY <1>3, Indices DEF WaitForWorkers
<1> QED
  BY <1>1, <1>2, <1>3 DEF SendStep

\* Receiving a job keeps it: the job at the head of the channel was with no
\* worker, and now is with this one alone.
LEMMA ReceiveInv == ASSUME NEW w \in Workers PROVE IndInv /\ Receive(w) => IndInv'
<1> SUFFICES ASSUME IndInv, Receive(w) PROVE IndInv'
  OBVIOUS
<1> DEFINE p == Head(workCh)
<1>1. /\ worker[w] = "idle" /\ workCh # <<>> /\ workCh' = Tail(workCh)
      /\ worker' = [worker EXCEPT ![w] = p] /\ exec' = [exec EXCEPT ![p] = "running"]
      /\ UNCHANGED <<pc, unvisited, jobs, next, closed, remote, copied, reported, interrupted>>
  BY DEF Receive, resultVars
<1>2. /\ workCh \in Seq(Pods) /\ jobs \in Seq(Pods)
      /\ worker \in [Workers -> Pods \cup {"absent", "idle", "exited"}]
      /\ exec \in [Pods -> {"none", "running", "ok", "failed"}]
      /\ \A i \in DOMAIN jobs : jobs[i] \in Pods
  BY Indices DEF IndInv, TypeOK
<1>3. /\ workCh' \in Seq(Pods) /\ Len(workCh') = Len(workCh) - 1 /\ Len(workCh) \in Nat
      /\ p \in Pods /\ p = workCh[1] /\ 1 \in DOMAIN workCh
  BY <1>1, <1>2, TailElements
<1>4. /\ \A k \in DOMAIN workCh' : k + 1 \in DOMAIN workCh /\ workCh'[k] = workCh[k + 1]
      /\ \A k \in DOMAIN workCh : k # 1 => k - 1 \in DOMAIN workCh' /\ workCh'[k - 1] = workCh[k]
      /\ DOMAIN workCh = 1..Len(workCh) /\ DOMAIN workCh' = 1..Len(workCh')
      /\ \A k \in DOMAIN workCh : workCh[k] \in Pods
      /\ \A k \in DOMAIN workCh' : workCh'[k] \in Pods
  <2>1. DOMAIN workCh' = 1..Len(workCh') /\ \A k \in DOMAIN workCh' : workCh'[k] \in Pods
    BY <1>3, Indices
  <2>2. DOMAIN workCh = 1..Len(workCh) /\ \A k \in DOMAIN workCh : workCh[k] \in Pods
    BY <1>2, Indices
  <2> QED
    BY <2>1, <2>2, <1>1, <1>2, TailElements
<1> HIDE DEF p
<1>5. /\ \A i, j \in DOMAIN workCh : workCh[i] = workCh[j] => i = j
      /\ \A i \in DOMAIN workCh : exec[workCh[i]] = "none"
      /\ \A v \in Workers : worker[v] \in Pods => exec[worker[v]] = "running"
      /\ \A q \in Pods : exec[q] = "running" => \E v \in Workers : worker[v] = q
      /\ \A u, v \in Workers : worker[u] = worker[v] /\ worker[u] \in Pods => u = v
  BY DEF IndInv, JobPlaces, OneWorkerPerJob
<1>6. exec[p] = "none" /\ \A v \in Workers : worker[v] # p
  <2>1. exec[p] = "none"
    BY <1>3, <1>5
  <2> QED
    BY <2>1, <1>3, <1>5
<1>7. /\ \A v \in Workers : v # w => worker'[v] = worker[v]
      /\ worker'[w] = p
      /\ \A q \in Pods : q # p => exec'[q] = exec[q]
      /\ exec'[p] = "running"
  BY <1>1, <1>2, <1>3
<1>8. \A k \in DOMAIN workCh' : workCh'[k] # p
  <2> SUFFICES ASSUME NEW k \in DOMAIN workCh', workCh'[k] = p PROVE FALSE
    OBVIOUS
  <2>1. k + 1 \in DOMAIN workCh /\ workCh[k + 1] = workCh[1]
    BY <1>3, <1>4
  <2>2. k + 1 = 1
    BY <2>1, <1>3, <1>5
  <2> QED
    BY <2>2, <1>3, <1>4
<1>9. pc \notin {"list", "collect", "copy", "cleanup"}
  BY <1>1 DEF IndInv, PoolPhases, CollectAfterExec, Collecting
<1>10. TypeOK'
  <2>1. Len(workCh') <= Capacity
    <3>1. Len(workCh) <= Capacity /\ Capacity \in Nat /\ Capacity' = Capacity
      BY <1>1, <1>2, Indices, ConcurrencyValid DEF IndInv, TypeOK, Capacity, NumWorkers
    <3> QED
      BY <3>1, <1>3
  <2>2. /\ worker' \in [Workers -> Pods \cup {"absent", "idle", "exited"}]
        /\ exec' \in [Pods -> {"none", "running", "ok", "failed"}]
    BY <1>1, <1>2, <1>3
  <2> QED
    BY <2>1, <2>2, <1>1, <1>3 DEF IndInv, TypeOK, Capacity
<1>11. OneWorkerPerJob'
  <2>1. ASSUME NEW u \in Workers, NEW v \in Workers, worker'[u] = worker'[v], worker'[u] \in Pods
        PROVE  u = v
    BY <2>1, <1>5, <1>6, <1>7
  <2>2. ASSUME NEW k \in DOMAIN workCh' PROVE exec'[workCh'[k]] = "none"
    <3>1. workCh'[k] # p /\ workCh'[k] \in Pods /\ exec[workCh'[k]] = "none"
      BY <1>4, <1>5, <1>8
    <3> QED
      BY <3>1, <1>7
  <2> QED
    BY <2>1, <2>2 DEF OneWorkerPerJob
<1>12. JobPlaces'
  <2>1. ASSUME NEW v \in Workers, worker'[v] \in Pods PROVE exec'[worker'[v]] = "running"
    BY <2>1, <1>5, <1>6, <1>7
  <2>2. ASSUME NEW q \in Pods, exec'[q] = "running" PROVE \E v \in Workers : worker'[v] = q
    <3>1. CASE q = p
      BY <3>1, <1>7
    <3>2. CASE q # p
      <4>1. PICK v \in Workers : worker[v] = q
        BY <3>2, <2>2, <1>5, <1>7
      <4>2. v # w
        BY <4>1, <1>1, PodsAreNotStates
      <4> QED
        BY <4>1, <4>2, <1>7
    <3> QED
      BY <3>1, <3>2
  <2>3. ASSUME NEW i \in DOMAIN workCh', NEW j \in DOMAIN workCh', workCh'[i] = workCh'[j] PROVE i = j
    <3>1. i + 1 = j + 1
      BY <2>3, <1>4, <1>5
    <3> QED
      BY <3>1, <1>3, <1>4
  <2>4. ASSUME pc = "send", NEW i \in DOMAIN jobs, i >= next
        PROVE  exec'[jobs[i]] = "none" /\ \A k \in DOMAIN workCh' : workCh'[k] # jobs[i]
    <3>1. exec[jobs[i]] = "none" /\ \A k \in DOMAIN workCh : workCh[k] # jobs[i]
      BY <2>4 DEF IndInv, JobPlaces, JobIndex
    <3>2. jobs[i] # p /\ jobs[i] \in Pods
      BY <3>1, <1>2, <1>3
    <3> QED
      BY <3>1, <3>2, <1>4, <1>7
  <2> QED
    BY <2>1, <2>2, <2>3, <2>4, <1>1 DEF JobPlaces, JobIndex
<1>13. NotDropped'
  <2>1. ASSUME NEW i \in DOMAIN jobs, exec'[jobs[i]] = "none",
               exec[jobs[i]] = "none" => \E k \in DOMAIN workCh : workCh[k] = jobs[i]
        PROVE  \E l \in DOMAIN workCh' : workCh'[l] = jobs[i]
    <3>1. jobs[i] # p /\ jobs[i] \in Pods
      BY <2>1, <1>2, <1>7
    <3>2. PICK k \in DOMAIN workCh : workCh[k] = jobs[i]
      BY <2>1, <3>1, <1>7
    <3>3. k # 1
      BY <3>1, <3>2, <1>3
    <3> QED
      BY <3>2, <3>3, <1>4
  <2> QED
    BY <2>1, <1>1 DEF IndInv, NotDropped, Collecting, JobIndex
<1>14. PoolPhases'
  <2>1. ASSUME NEW v \in Workers, v <= NumWorkers(jobs), pc \notin {"list", "returned"}
        PROVE  worker'[v] # "absent"
    BY <2>1, <1>3, <1>7, PodsAreNotStates DEF IndInv, PoolPhases
  <2>2. \A v \in Workers : worker'[v] # "exited"
    BY <1>1, <1>3, <1>7, PodsAreNotStates DEF IndInv, PoolPhases
  <2> QED
    BY <2>1, <2>2, <1>1, <1>9 DEF IndInv, PoolPhases, NumWorkers
<1>15. JobsDistinct' /\ IndexValid' /\ AccountedSoFar' /\ EveryJobAccounted'
  BY <1>1 DEF IndInv, JobsDistinct, IndexValid, AccountedSoFar, AccountedFor, EveryJobAccounted, JobIndex
<1> QED
  BY <1>1, <1>9, <1>10, <1>11, <1>12, <1>13, <1>14, <1>15 DEF IndInv, CollectAfterExec, Collecting,
     CopiedWasExecuted

\* So do the workers.
LEMMA WorkerInv == ASSUME NEW w \in Workers PROVE IndInv /\ WorkerStep(w) => IndInv'
<1> SUFFICES ASSUME IndInv, WorkerStep(w) PROVE IndInv'
  OBVIOUS
<1> USE ConcurrencyValid, PodsAreNotStates DEF IndInv, TypeOK, JobsDistinct, PoolPhases, JobPlaces, NotDropped,
        IndexValid, AccountedSoFar, AccountedFor, CollectAfterExec, Collecting, CopiedWasExecuted,
        OneWorkerPerJob, EveryJobAccounted, JobIndex, PC, Capacity, NumWorkers, Workers,
        poolVars, resultVars
<1>1. CASE Receive(w)
  BY <1>1, ReceiveInv
<1>2. CASE ExecOk(w)
  BY <1>2, Indices DEF ExecOk, ExecReturns
<1>3. CASE ExecFails(w)
  BY <1>3, Indices DEF ExecFails, ExecReturns
<1>4. CASE WorkerExits(w)
  BY <1>4, Indices DEF WorkerExits
<1> QED
  BY <1>1, <1>2, <1>3, <1>4 DEF WorkerStep

\* So does collecting the results.
LEMMA CollectInv == IndInv /\ CollectStep => IndInv'
<1> SUFFICES ASSUME IndInv, CollectStep PROVE IndInv'
  OBVIOUS
<1> USE ConcurrencyValid, PodsAreNotStates DEF IndInv, TypeOK, JobsDistinct, PoolPhases, JobPlaces, NotDropped,
        IndexValid, AccountedSoFar, AccountedFor, CollectAfterExec, Collecting, CopiedWasExecuted,
        OneWorkerPerJob, EveryJobAccounted, JobIndex, PC, Capacity, NumWorkers, Workers,
        poolVars, resultVars
<1>1. CASE CollectAborts
  BY <1>1, Indices DEF CollectAborts
<1>2. CASE BeginCopy
  BY <1>2, Indices DEF BeginCopy, ExecErrNil
<1>3. CASE ReportExecErr
  BY <1>3, Indices DEF ReportExecErr
<1>4. CASE CopyOk
  BY <1>4, Indices DEF CopyOk, CopyEnds
<1>5. CASE CopyFails
  BY <1>5, Indices DEF CopyFails, CopyEnds
<1>6. CASE CleanUp
  <2>1. remote' \in [Pods -> {"none", "running", "file"}]
    BY <1>6, Indices DEF CleanUp
  <2>2. /\ pc = "cleanup" /\ pc' = "collect" /\ next' = next + 1
        /\ UNCHANGED <<unvisited, jobs, poolVars, exec, resultVars, interrupted>>
    BY <1>6 DEF CleanUp
  <2>3. TypeOK'
    BY <2>1, <2>2, Indices
  <2>4. AccountedSoFar'
    BY <2>2, Indices
  <2>5. JobsDistinct' /\ PoolPhases'
    BY <2>2
  <2>6. JobPlaces' /\ NotDropped' /\ IndexValid'
    BY <2>2
  <2>7. CollectAfterExec' /\ CopiedWasExecuted' /\ OneWorkerPerJob' /\ EveryJobAccounted'
    BY <2>2
  <2> HIDE DEF TypeOK, JobsDistinct, PoolPhases, JobPlaces, NotDropped, IndexValid,
           AccountedSoFar, CollectAfterExec, CopiedWasExecuted, OneWorkerPerJob, EveryJobAccounted
  <2> QED
    BY <2>3, <2>4, <2>5, <2>6, <2>7
<1>7. CASE Return
  BY <1>7, Indices DEF Return
<1> QED
  BY <1>1, <1>2, <1>3, <1>4, <1>5, <1>6, <1>7 DEF CollectStep

\* So do the commands given up on and the interrupt.
LEMMA EnvironmentInv ==
  IndInv /\ ((\E p \in Pods : CommandEnds(p)) \/ Interrupt \/ Returned) => IndInv'
<1> USE ConcurrencyValid, PodsAreNotStates DEF IndInv, TypeOK, JobsDistinct, PoolPhases, JobPlaces, NotDropped,
        IndexValid, AccountedSoFar, AccountedFor, CollectAfterExec, Collecting, CopiedWasExecuted,
        OneWorkerPerJob, EveryJobAccounted, JobIndex, PC, Capacity, NumWorkers, Workers,
        poolVars, resultVars
<1>1. ASSUME IndInv, NEW p \in Pods, CommandEnds(p) PROVE IndInv'
  BY <1>1 DEF CommandEnds
<1>2. ASSUME IndInv, Interrupt PROVE IndInv'
  BY <1>2 DEF Interrupt
<1>3. ASSUME IndInv, Returned PROVE IndInv'
  BY <1>3 DEF Returned, vars
<1> QED
  BY <1>1, <1>2, <1>3

\* Stuttering keeps it.
LEMMA StutterInv == IndInv /\ UNCHANGED vars => IndInv'
  BY DEF vars, IndInv, TypeOK, JobsDistinct, PoolPhases, JobPlaces, NotDropped,
        IndexValid, AccountedSoFar, AccountedFor, CollectAfterExec, Collecting, CopiedWasExecuted,
        OneWorkerPerJob, EveryJobAccounted, JobIndex, PC, Capacity, NumWorkers, Workers,
        poolVars, resultVars

\* Every state of runAgentDiagnostics satisfies the invariant.
THEOREM Invariance == Spec => []IndInv
<1>1. Init => IndInv
  BY InitInv
<1>2. IndInv /\ [Next]_vars => IndInv'
  <2> SUFFICES ASSUME IndInv, [Next]_vars PROVE IndInv'
    OBVIOUS
  <2>1. CASE MainStep
    BY <2>1, SelectInv, SendInv, CollectInv DEF MainStep
  <2>2. CASE \E w \in Workers : WorkerStep(w)
    BY <2>2, WorkerInv
  <2>3. CASE (\E p \in Pods : CommandEnds(p)) \/ Interrupt \/ Returned
    BY <2>3, EnvironmentInv
  <2>4. CASE UNCHANGED vars
    BY <2>4, StutterInv
  <2> QED
    BY <2>1, <2>2, <2>3, <2>4 DEF Next
<1> QED
  BY <1>1, <1>2, PTL DEF Spec

\* Main reads execErr only when no worker can write it any more: the unlocked
\* field of agentDiagnosticJob is not raced on.
THEOREM ReadsAfterWrites == Spec => []CollectAfterExec
<1>1. IndInv => CollectAfterExec
  BY DEF IndInv
<1> QED
  BY <1>1, Invariance, PTL

\* Only the results of a command that succeeded are copied, although the
\* execErr of a job that sendLoop dropped is nil as well.
THEOREM CopiesOnlyResults == Spec => []CopiedWasExecuted
<1>1. IndInv => CopiedWasExecuted
  BY DEF IndInv
<1> QED
  BY <1>1, Invariance, PTL

\* A Pod's diagnostics run once, in one worker.
THEOREM RunsOnce == Spec => []OneWorkerPerJob
<1>1. IndInv => OneWorkerPerJob
  BY DEF IndInv
<1> QED
  BY <1>1, Invariance, PTL

\* Without an interrupt the archive has the results of every selected Pod, or
\* an error about it.
THEOREM NothingForgotten == Spec => []EveryJobAccounted
<1>1. IndInv => EveryJobAccounted
  BY DEF IndInv
<1> QED
  BY <1>1, Invariance, PTL

\* Every variable has its type, and the channel keeps within its capacity.
THEOREM TypeCorrect == Spec => []TypeOK
<1>1. IndInv => TypeOK
  BY DEF IndInv
<1> QED
  BY <1>1, Invariance, PTL
=============================================================================
