----------------------------- MODULE AgentDiag -----------------------------
(***************************************************************************)
(* One call of runAgentDiagnostics (internal/agentdiag.go): the Elastic    *)
(* Agent diagnostics of one namespace. Main selects the agent Pods, hands  *)
(* them to a pool of workers through a buffered channel, waits for the     *)
(* workers, and then collects and removes the results one Pod at a time.   *)
(* The workers run "elastic-agent diagnostics collect" in the containers,  *)
(* each under a timeout. An interrupt may come at any time.                *)
(***************************************************************************)
EXTENDS Naturals, Sequences

CONSTANTS
  Pods,         \* the Pods of type agent in the namespace
  Concurrency   \* --agent-diagnostics-concurrency

\* The command line refuses a concurrency below 1 (cmd/main.go:88).
ASSUME ConcurrencyValid == Concurrency \in Nat \ {0}

\* A worker's variable tells a Pod from the worker's own states.
ASSUME PodsAreNotStates == {"absent", "idle", "exited"} \cap Pods = {}

VARIABLES
  pc,           \* where Main is
  unvisited,    \* Pods that Visit has not come to
  jobs,         \* the slice of agentDiagnosticJobs
  next,         \* index of Main's loops over jobs
  workCh,       \* the channel's buffer
  closed,       \* whether the channel is closed
  worker,       \* what each worker does
  exec,         \* of each Pod: how its exec went, from which execErr follows
  remote,       \* of each Pod: the result file in the container
  copied,       \* of each Pod: what the archive holds of it
  reported,     \* Pods an error in the archive is about
  interrupted   \* the context is done

poolVars   == <<workCh, closed, worker>>
resultVars == <<copied, reported>>
vars == <<pc, unvisited, jobs, next, poolVars, exec, remote, resultVars, interrupted>>

Workers == 1..Concurrency

\* Of the workers only min(Concurrency, Len(jobs)) are started. A started worker
\* is "idle", runs a Pod's diagnostics, or has "exited".
NumWorkers(js) == IF Concurrency <= Len(js) THEN Concurrency ELSE Len(js)

\* The channel's capacity.
Capacity == NumWorkers(jobs)

\* execErr is nil until an exec returned an error, also when none was run.
ExecErrNil(p) == exec[p] \in {"none", "ok"}

Init ==
  /\ pc = "list"
  /\ unvisited = Pods
  /\ jobs = <<>>
  /\ next = 1
  /\ workCh = <<>>
  /\ closed = FALSE
  /\ worker = [w \in Workers |-> "absent"]
  /\ exec = [p \in Pods |-> "none"]
  /\ remote = [p \in Pods |-> "none"]
  /\ copied = [p \in Pods |-> "nothing"]
  /\ reported = {}
  /\ interrupted = FALSE

-----------------------------------------------------------------------------
(***************************************************************************)
(* Main: selecting the Pods.                                               *)
(***************************************************************************)

\* A Pod with a version of at least 7.16.0 that the filters match.
Select(p) ==
  /\ pc = "list" /\ p \in unvisited
  /\ unvisited' = unvisited \ {p}
  /\ jobs' = Append(jobs, p)
  /\ UNCHANGED <<pc, next, poolVars, exec, remote, resultVars, interrupted>>

\* A Pod without a version, below 7.16.0, or that no filter matches.
SkipPod(p) ==
  /\ pc = "list" /\ p \in unvisited
  /\ unvisited' = unvisited \ {p}
  /\ UNCHANGED <<pc, jobs, next, poolVars, exec, remote, resultVars, interrupted>>

\* A Pod whose labels or version cannot be read.
RejectPod(p) ==
  /\ pc = "list" /\ p \in unvisited
  /\ unvisited' = unvisited \ {p}
  /\ reported' = reported \cup {p}
  /\ UNCHANGED <<pc, jobs, next, poolVars, exec, remote, copied, interrupted>>

\* getResourcesMatching or Visit returns an error: nothing is run.
ListFails ==
  /\ pc = "list"
  /\ pc' = "returned"
  /\ UNCHANGED <<unvisited, jobs, next, poolVars, exec, remote, resultVars, interrupted>>

StartWorkers ==
  /\ pc = "list" /\ unvisited = {}
  /\ pc' = IF jobs = <<>> THEN "returned" ELSE "send"
  /\ worker' = [w \in Workers |-> IF w <= NumWorkers(jobs) THEN "idle" ELSE "absent"]
  /\ UNCHANGED <<unvisited, jobs, next, workCh, closed, exec, remote, resultVars, interrupted>>

(***************************************************************************)
(* Main: sendLoop, and the wait for the workers.                           *)
(***************************************************************************)
\* Mistake: the channel's capacity does not bound what is sent.
SendUnbounded ==
  /\ pc = "send" /\ next <= Len(jobs)
  /\ workCh' = Append(workCh, jobs[next])
  /\ next' = next + 1
  /\ UNCHANGED <<pc, unvisited, jobs, closed, worker, exec, remote, resultVars, interrupted>>

Send ==
  /\ pc = "send" /\ next <= Len(jobs)
  /\ Len(workCh) < Capacity
  /\ workCh' = Append(workCh, jobs[next])
  /\ next' = next + 1
  /\ UNCHANGED <<pc, unvisited, jobs, closed, worker, exec, remote, resultVars, interrupted>>

\* Mistake: the channel is left open.
LeaveOpen ==
  /\ pc = "send"
  /\ next > Len(jobs) \/ interrupted
  /\ pc' = "wait"
  /\ UNCHANGED <<unvisited, jobs, next, poolVars, exec, remote, resultVars, interrupted>>

\* The loop ends, with the last job or because the context is done; the
\* select may still send when it is.
CloseChannel ==
  /\ pc = "send"
  /\ next > Len(jobs) \/ interrupted
  /\ closed' = TRUE
  /\ pc' = "wait"
  /\ UNCHANGED <<unvisited, jobs, next, workCh, worker, exec, remote, resultVars, interrupted>>

\* Mistake: Main waits until the channel is empty, not for the workers.
WaitForChannel ==
  /\ pc = "wait"
  /\ workCh = <<>>
  /\ pc' = "collect"
  /\ next' = 1
  /\ UNCHANGED <<unvisited, jobs, poolVars, exec, remote, resultVars, interrupted>>

WaitForWorkers ==
  /\ pc = "wait"
  /\ \A w \in Workers : worker[w] \in {"absent", "exited"}
  /\ pc' = "collect"
  /\ next' = 1
  /\ UNCHANGED <<unvisited, jobs, poolVars, exec, remote, resultVars, interrupted>>

(***************************************************************************)
(* A worker. Started workers leave the channel's loop when it is closed    *)
(* and empty.                                                              *)
(***************************************************************************)
Receive(w) ==
  /\ worker[w] = "idle" /\ workCh # <<>>
  /\ worker' = [worker EXCEPT ![w] = Head(workCh)]
  /\ workCh' = Tail(workCh)
  /\ exec' = [exec EXCEPT ![Head(workCh)] = "running"]
  /\ UNCHANGED <<pc, unvisited, jobs, next, closed, remote, resultVars, interrupted>>

ExecReturns(w, result, files) ==
  LET p == worker[w] IN
  /\ p \in Pods
  /\ exec' = [exec EXCEPT ![p] = result]
  /\ \E f \in files : remote' = [remote EXCEPT ![p] = f]
  /\ worker' = [worker EXCEPT ![w] = "idle"]
  /\ UNCHANGED <<pc, unvisited, jobs, next, workCh, closed, resultVars, interrupted>>

ExecOk(w) == ExecReturns(w, "ok", {"file"})

\* Mistake: a command that failed is queued again.
ExecFailsRequeue(w) ==
  LET p == worker[w] IN
  /\ p \in Pods
  /\ exec' = [exec EXCEPT ![p] = "failed"]
  /\ worker' = [worker EXCEPT ![w] = "idle"]
  /\ workCh' = IF Len(workCh) < Capacity THEN Append(workCh, p) ELSE workCh
  /\ UNCHANGED <<pc, unvisited, jobs, next, closed, remote, resultVars, interrupted>>

\* The command fails, the timeout expires or the context is done. The command
\* may have left a file all the same, or go on running in the container.
ExecFails(w) == ExecReturns(w, "failed", {"none", "running", "file"})

WorkerExits(w) ==
  /\ worker[w] = "idle" /\ workCh = <<>> /\ closed
  /\ worker' = [worker EXCEPT ![w] = "exited"]
  /\ UNCHANGED <<pc, unvisited, jobs, next, workCh, closed, exec, remote, resultVars, interrupted>>

(***************************************************************************)
(* Main: collecting the results.                                           *)
(***************************************************************************)
CollectAborts ==
  /\ pc = "collect" /\ next <= Len(jobs) /\ interrupted
  /\ pc' = "returned"
  /\ UNCHANGED <<unvisited, jobs, next, poolVars, exec, remote, resultVars, interrupted>>

\* Mistake: the context is not looked at between the Pods.
BeginCopyAnyway ==
  /\ pc = "collect" /\ next <= Len(jobs)
  /\ ExecErrNil(jobs[next])
  /\ pc' = "copy"
  /\ UNCHANGED <<unvisited, jobs, next, poolVars, exec, remote, resultVars, interrupted>>

BeginCopy ==
  /\ pc = "collect" /\ next <= Len(jobs) /\ ~interrupted
  /\ ExecErrNil(jobs[next])
  /\ pc' = "copy"
  /\ UNCHANGED <<unvisited, jobs, next, poolVars, exec, remote, resultVars, interrupted>>

\* Mistake: the error is logged only.
DropExecErr ==
  /\ pc = "collect" /\ next <= Len(jobs) /\ ~interrupted
  /\ ~ExecErrNil(jobs[next])
  /\ pc' = "cleanup"
  /\ UNCHANGED <<unvisited, jobs, next, poolVars, exec, remote, resultVars, interrupted>>

ReportExecErr ==
  /\ pc = "collect" /\ next <= Len(jobs) /\ ~interrupted
  /\ ~ExecErrNil(jobs[next])
  /\ reported' = reported \cup {jobs[next]}
  /\ pc' = "cleanup"
  /\ UNCHANGED <<unvisited, jobs, next, poolVars, exec, remote, copied, interrupted>>

CopyEnds(what) ==
  /\ pc = "copy"
  /\ copied' = [copied EXCEPT ![jobs[next]] = what]
  /\ pc' = "cleanup"
  /\ UNCHANGED <<unvisited, jobs, next, poolVars, exec, remote, interrupted>>

CopyOk ==
  /\ pc = "copy" /\ remote[jobs[next]] = "file"
  /\ CopyEnds("full")
  /\ UNCHANGED reported

\* No file, a broken stream, an archive that cannot be read, an interrupt: the
\* error is recorded, by Copy when the stream looks complete; then the rest
\* of the stream is drained.
CopyFails ==
  /\ pc = "copy"
  /\ \E what \in {"nothing", "partial"} : CopyEnds(what)
  /\ reported' = reported \cup {jobs[next]}

\* rm is tried whatever happened before, and its failure at most logged.
CleanUp ==
  /\ pc = "cleanup"
  /\ remote' \in {remote} \cup
       (IF interrupted \/ remote[jobs[next]] # "file" THEN {}
        ELSE {[remote EXCEPT ![jobs[next]] = "none"]})
  /\ next' = next + 1
  /\ pc' = "collect"
  /\ UNCHANGED <<unvisited, jobs, poolVars, exec, resultVars, interrupted>>

Return ==
  /\ pc = "collect" /\ next > Len(jobs)
  /\ pc' = "returned"
  /\ UNCHANGED <<unvisited, jobs, next, poolVars, exec, remote, resultVars, interrupted>>

(***************************************************************************)
(* The environment.                                                        *)
(***************************************************************************)

\* A command whose exec was given up on comes to its end.
CommandEnds(p) ==
  /\ remote[p] = "running"
  /\ remote' = [remote EXCEPT ![p] = "file"]
  /\ UNCHANGED <<pc, unvisited, jobs, next, poolVars, exec, resultVars, interrupted>>

Interrupt ==
  /\ ~interrupted
  /\ interrupted' = TRUE
  /\ UNCHANGED <<pc, unvisited, jobs, next, poolVars, exec, remote, resultVars>>

Returned == pc = "returned" /\ UNCHANGED vars

-----------------------------------------------------------------------------
SelectStep == (\E p \in Pods : Select(p) \/ SkipPod(p) \/ RejectPod(p)) \/ ListFails \/ StartWorkers
SendStep   == Send \/ CloseChannel \/ WaitForWorkers
CollectStep == CollectAborts \/ BeginCopy \/ ReportExecErr \/ CopyOk \/ CopyFails \/ CleanUp \/ Return
MainStep   == SelectStep \/ SendStep \/ CollectStep

WorkerStep(w) == Receive(w) \/ ExecOk(w) \/ ExecFails(w) \/ WorkerExits(w)

Next ==
  \/ MainStep
  \/ \E w \in Workers : WorkerStep(w)
  \/ \E p \in Pods : CommandEnds(p)
  \/ Interrupt
  \/ Returned

Spec == Init /\ [][Next]_vars

\* Goroutines that can run do run; an exec returns, at the latest with its
\* timeout; a copy ends. Nobody has to press Ctrl-C.
Fairness ==
  /\ WF_vars(MainStep)
  /\ \A w \in Workers : WF_vars(WorkerStep(w))

FairSpec == Spec /\ Fairness

-----------------------------------------------------------------------------
(***************************************************************************)
(* Properties.                                                             *)
(***************************************************************************)
PC == {"list", "send", "wait", "collect", "copy", "cleanup", "returned"}
JobIndex == DOMAIN jobs

\* Types; the channel never holds more than its capacity and Main's loops stay
\* within the slice.
TypeOK ==
  /\ pc \in PC
  /\ unvisited \subseteq Pods
  /\ jobs \in Seq(Pods)
  /\ next \in Nat \ {0} /\ next <= Len(jobs) + 1
  /\ workCh \in Seq(Pods) /\ Len(workCh) <= Capacity
  /\ closed \in BOOLEAN
  /\ worker \in [Workers -> Pods \cup {"absent", "idle", "exited"}]
  /\ exec \in [Pods -> {"none", "running", "ok", "failed"}]
  /\ remote \in [Pods -> {"none", "running", "file"}]
  /\ copied \in [Pods -> {"nothing", "partial", "full"}]
  /\ reported \subseteq Pods
  /\ interrupted \in BOOLEAN

Collecting == pc \in {"collect", "copy", "cleanup"}

\* execErr is written by the workers and read by Main without a lock: when Main
\* reads it, every worker has exited and no job waits in the channel.
CollectAfterExec ==
  Collecting => /\ \A w \in Workers : worker[w] \in {"absent", "exited"}
                /\ workCh = <<>>

\* A nil execErr does not mean that the command was run: sendLoop drops jobs on
\* an interrupt. Nothing is copied that was not run successfully.
CopiedWasExecuted == pc = "copy" => exec[jobs[next]] = "ok"

\* Two workers never have the same job, and none has one that waits in the
\* channel: no command is run twice in a container.
OneWorkerPerJob ==
  /\ \A v, w \in Workers : worker[v] = worker[w] /\ worker[v] \in Pods => v = w
  /\ \A i \in DOMAIN workCh : exec[workCh[i]] = "none"

\* A call that was not interrupted has, for every Pod it selected, the complete
\* results or an error in the archive. (The channel is closed unless the call
\* returned from the listing.)
EveryJobAccounted ==
  pc = "returned" /\ closed /\ ~interrupted =>
    \A i \in JobIndex : copied[jobs[i]] = "full" \/ jobs[i] \in reported

(***************************************************************************)
(* The inductive invariant behind the four safety properties above.        *)
(***************************************************************************)

\* A Pod is visited once, and so has one job.
JobsDistinct ==
  /\ \A i, j \in JobIndex : jobs[i] = jobs[j] => i = j
  /\ \A i \in JobIndex : jobs[i] \notin unvisited

\* Before the workers are started there is nothing in the pool, after it there
\* are some; the channel is closed when sendLoop ends, and stays empty once
\* a worker found it so.
PoolPhases ==
  /\ pc = "list" => /\ workCh = <<>> /\ ~closed /\ next = 1
                    /\ \A w \in Workers : worker[w] = "absent"
                    /\ \A p \in Pods : exec[p] = "none"
  /\ pc = "send" => ~closed
  /\ pc \notin {"list", "returned"} => /\ jobs # <<>>
                                       /\ \A w \in Workers : w <= NumWorkers(jobs) => worker[w] # "absent"
  /\ \A w \in Workers : worker[w] = "exited" => closed /\ workCh = <<>>

\* A job is with one worker, or waits in the channel once, or is still to be sent.
JobPlaces ==
  /\ \A w \in Workers : worker[w] \in Pods => exec[worker[w]] = "running"
  /\ \A p \in Pods : exec[p] = "running" => \E w \in Workers : worker[w] = p
  /\ \A i, j \in DOMAIN workCh : workCh[i] = workCh[j] => i = j
  /\ pc = "send" => \A i \in JobIndex : i >= next =>
        exec[jobs[i]] = "none" /\ \A k \in DOMAIN workCh : workCh[k] # jobs[i]

\* Without an interrupt no job is dropped: one whose command was not run waits
\* in the channel or has not been sent.
NotDropped ==
  /\ pc = "send" => \A i \in JobIndex :
        i < next /\ exec[jobs[i]] = "none" => \E k \in DOMAIN workCh : workCh[k] = jobs[i]
  /\ (pc = "wait" \/ Collecting) /\ ~interrupted => \A i \in JobIndex :
        exec[jobs[i]] = "none" => \E k \in DOMAIN workCh : workCh[k] = jobs[i]

\* next is within the slice wherever it is used as an index.
IndexValid == pc \in {"copy", "cleanup"} => next \in JobIndex

\* Collecting leaves behind it only Pods that are accounted for.
AccountedFor(p) == copied[p] = "full" \/ p \in reported

AccountedSoFar ==
  /\ pc \in {"collect", "copy"} => \A i \in JobIndex : i < next => AccountedFor(jobs[i])
  /\ pc = "cleanup" => \A i \in JobIndex : i <= next => AccountedFor(jobs[i])

IndInv ==
  /\ TypeOK
  /\ JobsDistinct
  /\ PoolPhases
  /\ JobPlaces
  /\ NotDropped
  /\ IndexValid
  /\ AccountedSoFar
  /\ CollectAfterExec
  /\ CopiedWasExecuted
  /\ OneWorkerPerJob
  /\ EveryJobAccounted

\* The call ends: no worker waits for a job for ever, and Main for no worker.
Returns == <>(pc = "returned")
=============================================================================
