----------------------------- MODULE StackDiag -----------------------------
(***************************************************************************)
(* One call of runStackDiagnostics (internal/stackdiag.go): the stack      *)
(* diagnostics of one namespace.                                           *)
(*                                                                         *)
(* Three kinds of goroutine share the diagJob objects:                     *)
(*   - Main schedules a diagnostic Pod per resource, runs the informer     *)
(*     until the context ends, then aborts the jobs that are still open;   *)
(*   - Handler is the one goroutine in which the informer calls            *)
(*     UpdateFunc and DeleteFunc; it extracts results and cancels the      *)
(*     context once every job is done;                                     *)
(*   - the timer goroutine of a job, named by the job itself, terminates   *)
(*     the job when it exceeds its timeout.                                *)
(* Any of them may run terminateJob: MarkDone under the job's lock, then   *)
(* the deletion of the Pod and of the keystore Secret.                     *)
(*                                                                         *)
(* The API server, the kubelet and the informer's queue are external: they *)
(* appear as what this code can observe of them.                           *)
(***************************************************************************)
EXTENDS Naturals, Sequences

CONSTANTS
  Jobs,          \* resources a diagnostic Pod can be scheduled for
  WithKeystore,  \* those whose cluster requires a client certificate
  Faults,        \* what the environment may do beyond a clean run
  Main,          \* the goroutine that calls runStackDiagnostics
  Handler,       \* the goroutine of the informer's event handlers
  None           \* no holder, no target

(***************************************************************************)
(* podVanishes : a Pod is evicted or deleted by somebody else              *)
(* deleteFails : the API server refuses or loses a deletion                *)
(* tombstone   : the watch misses a deletion and the informer hands a      *)
(*               DeletedFinalStateUnknown to DeleteFunc                    *)
(* earlyTimer  : the timeout is short against the time scheduling takes    *)
(* listFails   : a resource type cannot be listed                          *)
(* streamCut   : the connection that streams the results breaks            *)
(* emptyOutput : the diagnostic tool leaves no archive in the Pod          *)
(* interrupt   : the user presses Ctrl-C                                   *)
(***************************************************************************)
AllFaults == {"podVanishes", "deleteFails", "tombstone", "earlyTimer",
              "listFails", "streamCut", "emptyOutput", "interrupt"}

ASSUME ActorsDiffer ==
  /\ Main # Handler
  /\ Main \notin Jobs /\ Handler \notin Jobs
  /\ None \notin Jobs \cup {Main, Handler}
ASSUME KeystoreJobs == WithKeystore \subseteq Jobs
ASSUME KnownFaults  == Faults \subseteq AllFaults

Actors == Jobs \cup {Main, Handler}

VARIABLES
  pc,           \* where each goroutine is
  target,       \* the job Main and Handler work on
  left,         \* Main's loop: jobs to schedule, then jobs to abort
  registered,   \* the keys of ds.jobs
  d,            \* diagJob.d
  timer,        \* diagJob.timer
  done,         \* tokens in the channel diagJob.done (capacity 1)
  lock,         \* holder of diagJob's write lock
  pod,          \* phase of the job's Pod in the cluster
  keystore,     \* whether the job's keystore Secret exists
  seen,         \* the phase last handed to an event handler by the informer
  queue,        \* the job's notifications Handler has not handled yet
  unchecked,    \* DeleteFunc's loop: jobs whose Done() is still to be read
  allDone,      \* DeleteFunc's local variable done
  interrupted,  \* the parent context was cancelled by a signal
  cancelled,    \* ds.cancelFunc was called
  got,          \* what the archive holds of the job's results; "empty": the
                \* Pod had none
  reported,     \* an error or a log line in the archive explains the job
  podFailed,       \* jobs for whose Pod a deletion returned an error
  keystoreFailed,  \* ... and for whose keystore Secret
  exited        \* the process ended

jobVars     == <<d, timer, done, lock>>
clusterVars == <<pod, keystore>>
eventVars   == <<seen, queue, unchecked, allDone>>
ctxVars     == <<interrupted, cancelled>>
resultVars  == <<got, reported, podFailed, keystoreFailed>>
vars == <<pc, target, left, registered, jobVars, clusterVars, eventVars,
          ctxVars, resultVars, exited>>

(***************************************************************************)
(* Control points.                                                         *)
(***************************************************************************)
Terminating == {"mark", "send", "deletePod", "deleteKeystore"}
MainPC    == {"schedule", "list", "inform", "abort", "returned", "bailed"} \cup Terminating
HandlerPC == {"off", "idle", "update", "extract", "sweep"} \cup Terminating
TimerPC   == {"none", "start", "select", "exited"} \cup Terminating

LivePhases == {"pending", "badImage", "waiting", "ready", "ended"}
Phases     == LivePhases \cup {"none", "gone"}
Notices    == LivePhases \cup {"gone"}   \* what the watch reports

Target(a) == IF a \in Jobs THEN a ELSE target[a]

\* ds.context is done: its parent was interrupted or cancelFunc was called.
CtxDone == interrupted \/ cancelled

\* Done() and MarkDone wait while another goroutine holds the write lock.
Unlocked(j) == lock[j] = None

Goto(a, l) == pc' = [pc EXCEPT ![a] = l]

\* Handler and Main forget the job they are through with.
Forget(a) == target' = IF a \in Jobs THEN target ELSE [target EXCEPT ![a] = None]

\* Where terminateJob returns to.
Resume(a) == IF a = Main THEN "abort" ELSE IF a = Handler THEN "idle" ELSE "exited"

\* AddError, or the line in the log that a timeout or an abort leaves.
Report(j) == reported' = [reported EXCEPT ![j] = TRUE]

\* The watch notifies the informer, once it has listed the Pod, of phase p.
Notify(j, p) ==
  queue' = IF pod[j] \in LivePhases /\ seen[j] \in LivePhases
             THEN [queue EXCEPT ![j] = Append(@, p)] ELSE queue
-----------------------------------------------------------------------------
(***************************************************************************)
(* Initially nothing is scheduled and no other goroutine runs.             *)
(***************************************************************************)
Init ==
  /\ pc = [a \in Actors |-> IF a = Main THEN "schedule"
                            ELSE IF a = Handler THEN "off" ELSE "none"]
  /\ target = [a \in {Main, Handler} |-> None]
  /\ left = Jobs
  /\ registered = {}
  /\ d = [j \in Jobs |-> FALSE]
  /\ timer = [j \in Jobs |-> "nil"]
  /\ done = [j \in Jobs |-> 0]
  /\ lock = [j \in Jobs |-> None]
  /\ pod = [j \in Jobs |-> "none"]
  /\ keystore = [j \in Jobs |-> FALSE]
  /\ seen = [j \in Jobs |-> "none"]
  /\ queue = [j \in Jobs |-> <<>>]
  /\ unchecked = {}
  /\ allDone = FALSE
  /\ interrupted = FALSE
  /\ cancelled = FALSE
  /\ got = [j \in Jobs |-> "nothing"]
  /\ reported = [j \in Jobs |-> FALSE]
  /\ podFailed = {} /\ keystoreFailed = {}
  /\ exited = FALSE

-----------------------------------------------------------------------------
(***************************************************************************)
(* Main: scheduling.                                                       *)
(***************************************************************************)

\* The body of the Visit callback for one resource, with scheduleJob: the
\* keystore Secret and the Pod are created, the timer goroutine is started
\* and the job is registered.
Schedule(j) ==
  /\ pc[Main] = "schedule" /\ j \in left
  /\ left' = left \ {j}
  /\ keystore' = [keystore EXCEPT ![j] = (j \in WithKeystore)]
  /\ pod' = [pod EXCEPT ![j] = "pending"]
  /\ registered' = registered \cup {j}
  /\ Goto(j, "start")
  /\ UNCHANGED <<target, jobVars, eventVars, ctxVars, resultVars, exited>>

\* The resource is filtered out, has no credentials, or a request made on the
\* way to the Pod fails: no job. A Pod that was created all the same, its reply
\* lost, is not in ds.jobs: extractFromRemote and UpdateFunc pass it over, so it
\* is left out here (ScheduleJobs has it).
Skip(j) ==
  /\ pc[Main] = "schedule" /\ j \in left
  /\ left' = left \ {j}
  /\ UNCHANGED <<pc, target, registered, jobVars, clusterVars, eventVars,
                 ctxVars, resultVars, exited>>

\* scheduleJobs fails for one of the types, if only the last: runStackDiagnostics
\* returns at once, whatever was scheduled before.
Bail ==
  /\ "listFails" \in Faults
  /\ pc[Main] = "schedule"
  /\ Goto(Main, "bailed")
  /\ UNCHANGED <<target, left, registered, jobVars, clusterVars, eventVars,
                 ctxVars, resultVars, exited>>

Scheduled ==
  /\ pc[Main] = "schedule" /\ left = {}
  /\ Goto(Main, IF registered = {} THEN "returned" ELSE "list")
  /\ UNCHANGED <<target, left, registered, jobVars, clusterVars, eventVars,
                 ctxVars, resultVars, exited>>

(***************************************************************************)
(* Main: informer.Run and abortAllJobs.                                    *)
(***************************************************************************)

\* The informer's first list fills its cache; AddFunc does nothing.
ListPods ==
  /\ pc[Main] = "list"
  /\ seen' = [j \in Jobs |-> IF pod[j] \in LivePhases THEN pod[j] ELSE "none"]
  /\ pc' = [pc EXCEPT ![Main] = "inform", ![Handler] = "idle"]
  /\ UNCHANGED <<target, left, registered, jobVars, clusterVars, queue,
                 unchecked, allDone, ctxVars, resultVars, exited>>

\* Mistake: the call returns without abortAllJobs.
StopWithoutAbort ==
  /\ pc[Main] \in {"list", "inform"} /\ pc[Handler] \in {"off", "idle"}
  /\ CtxDone
  /\ pc' = [pc EXCEPT ![Main] = "returned", ![Handler] = "off"]
  /\ left' = registered
  /\ seen' = [j \in Jobs |-> "none"]
  /\ queue' = [j \in Jobs |-> <<>>]
  /\ UNCHANGED <<target, registered, jobVars, clusterVars, unchecked, allDone,
                 ctxVars, resultVars, exited>>

\* informer.Run returns when the context is done and the handler at rest; what
\* the handler was not notified of yet is dropped.
StopInformer ==
  /\ pc[Main] \in {"list", "inform"} /\ pc[Handler] \in {"off", "idle"}
  /\ CtxDone
  /\ pc' = [pc EXCEPT ![Main] = "abort", ![Handler] = "off"]
  /\ left' = registered
  /\ seen' = [j \in Jobs |-> "none"]
  /\ queue' = [j \in Jobs |-> <<>>]
  /\ UNCHANGED <<target, registered, jobVars, clusterVars, unchecked, allDone,
                 ctxVars, resultVars, exited>>

\* Mistake: the loop is left, not continued, at a job that is done.
AbortStopsAtDone(j) ==
  /\ pc[Main] = "abort" /\ j \in left
  /\ Unlocked(j) /\ d[j]
  /\ left' = {}
  /\ UNCHANGED <<pc, target, registered, jobVars, clusterVars, eventVars,
                 ctxVars, resultVars, exited>>

AbortSkipsDone(j) ==
  /\ pc[Main] = "abort" /\ j \in left
  /\ Unlocked(j) /\ d[j]
  /\ left' = left \ {j}
  /\ UNCHANGED <<pc, target, registered, jobVars, clusterVars, eventVars,
                 ctxVars, resultVars, exited>>

AbortTerminates(j) ==
  /\ pc[Main] = "abort" /\ j \in left
  /\ Unlocked(j) /\ ~d[j]
  /\ left' = left \ {j}
  /\ target' = [target EXCEPT ![Main] = j]
  /\ Goto(Main, "mark")
  /\ Report(j)
  /\ UNCHANGED <<registered, jobVars, clusterVars, eventVars, ctxVars, got,
                 podFailed, keystoreFailed, exited>>

Return ==
  /\ pc[Main] = "abort" /\ left = {}
  /\ Goto(Main, "returned")
  /\ UNCHANGED <<target, left, registered, jobVars, clusterVars, eventVars,
                 ctxVars, resultVars, exited>>

\* Run goes on to other namespaces and at last the process ends, and every
\* goroutine with it.
Exit ==
  /\ pc[Main] \in {"returned", "bailed"}
  /\ exited' = TRUE
  /\ UNCHANGED <<pc, target, left, registered, jobVars, clusterVars, eventVars,
                 ctxVars, resultVars>>

-----------------------------------------------------------------------------
(***************************************************************************)
(* terminateJob, run by any goroutine a for the job Target(a).             *)
(***************************************************************************)

\* Mistake: the lock is not taken.
MarkDoneUnlocked(a) ==
  LET j == Target(a) IN
  /\ pc[a] = "mark"
  /\ lock' = [lock EXCEPT ![j] = a]
  /\ d' = [d EXCEPT ![j] = TRUE]
  /\ timer' = [timer EXCEPT ![j] = IF @ = "nil" THEN @ ELSE "over"]
  /\ Goto(a, "send")
  /\ UNCHANGED <<target, left, registered, done, clusterVars, eventVars,
                 ctxVars, resultVars, exited>>

\* Mistake: the Pod is deleted first and the job marked done after it.
DeleteThenMark(a) ==
  LET j == Target(a) IN
  /\ pc[a] = "mark" /\ Unlocked(j)
  /\ IF pod[j] \in LivePhases
       THEN /\ pod' = [pod EXCEPT ![j] = "gone"]
            /\ Notify(j, "gone")
            /\ UNCHANGED <<lock, d, timer, pc>>
       ELSE /\ lock' = [lock EXCEPT ![j] = a]
            /\ d' = [d EXCEPT ![j] = TRUE]
            /\ timer' = [timer EXCEPT ![j] = IF @ = "nil" THEN @ ELSE "over"]
            /\ Goto(a, "send")
            /\ UNCHANGED <<pod, queue>>
  /\ UNCHANGED <<target, left, registered, done, keystore, seen, unchecked,
                 allDone, ctxVars, resultVars, exited>>

\* MarkDone up to the send: take the lock, set d, stop the timer. Since Go
\* 1.23 a stopped timer delivers no stale value.
MarkDone(a) ==
  LET j == Target(a) IN
  /\ pc[a] = "mark" /\ Unlocked(j)
  /\ lock' = [lock EXCEPT ![j] = a]
  /\ d' = [d EXCEPT ![j] = TRUE]
  /\ timer' = [timer EXCEPT ![j] = IF @ = "nil" THEN @ ELSE "over"]
  /\ Goto(a, "send")
  /\ UNCHANGED <<target, left, registered, done, clusterVars, eventVars,
                 ctxVars, resultVars, exited>>

\* Mistake: the channel's capacity is not respected.
SendDoneUnbounded(a) ==
  LET j == Target(a) IN
  /\ pc[a] = "send"
  /\ done' = [done EXCEPT ![j] = @ + 1]
  /\ lock' = [lock EXCEPT ![j] = None]
  /\ Goto(a, "deletePod")
  /\ UNCHANGED <<target, left, registered, d, timer, clusterVars, eventVars,
                 ctxVars, resultVars, exited>>

\* Mistake: a job whose timer was not started yet is not signalled.
SendDoneIfTimed(a) ==
  LET j == Target(a) IN
  /\ pc[a] = "send" /\ (timer[j] = "nil" \/ done[j] = 0)
  /\ done' = IF timer[j] = "nil" THEN done ELSE [done EXCEPT ![j] = 1]
  /\ lock' = [lock EXCEPT ![j] = None]
  /\ Goto(a, "deletePod")
  /\ UNCHANGED <<target, left, registered, d, timer, clusterVars, eventVars,
                 ctxVars, resultVars, exited>>

\* The send on the channel blocks while it holds a token; the lock is
\* released after it.
SendDone(a) ==
  LET j == Target(a) IN
  /\ pc[a] = "send" /\ done[j] = 0
  /\ done' = [done EXCEPT ![j] = 1]
  /\ lock' = [lock EXCEPT ![j] = None]
  /\ Goto(a, "deletePod")
  /\ UNCHANGED <<target, left, registered, d, timer, clusterVars, eventVars,
                 ctxVars, resultVars, exited>>

\* Handler passes ds.context to its deletions; the others a fresh one.
CtxAlive(a) == a = Handler => ~CtxDone

\* The API server deletes the Pod, or had none by that name.
DeletePod(a) ==
  LET j == Target(a) IN
  /\ pc[a] = "deletePod" /\ CtxAlive(a)
  /\ pod' = [pod EXCEPT ![j] = "gone"]
  /\ Notify(j, "gone")
  /\ Goto(a, "deleteKeystore")
  /\ UNCHANGED <<target, left, registered, jobVars, keystore, seen,
                 unchecked, allDone, ctxVars, resultVars, exited>>

\* Mistake: terminateJob returns the error at once.
DeletePodFailsAndReturn(a) ==
  LET j == Target(a) IN
  /\ pc[a] = "deletePod"
  /\ ~CtxAlive(a) \/ "deleteFails" \in Faults
  /\ podFailed' = podFailed \cup {j}
  /\ Goto(a, Resume(a)) /\ Forget(a)
  /\ UNCHANGED <<left, registered, jobVars, clusterVars, eventVars, ctxVars,
                 got, reported, keystoreFailed, exited>>

\* The error is kept and the Secret is tried all the same. A deletion whose reply
\* is lost was carried out.
DeletePodFails(a) ==
  LET j == Target(a) IN
  /\ pc[a] = "deletePod"
  /\ ~CtxAlive(a) \/ "deleteFails" \in Faults
  /\ \/ UNCHANGED <<pod, queue>>
     \/ /\ "deleteFails" \in Faults
        /\ pod' = [pod EXCEPT ![j] = "gone"]
        /\ Notify(j, "gone")
  /\ podFailed' = podFailed \cup {j}
  /\ Goto(a, "deleteKeystore")
  /\ UNCHANGED <<target, left, registered, jobVars, keystore, seen, unchecked,
                 allDone, ctxVars, got, reported, keystoreFailed, exited>>

DeleteKeystore(a) ==
  LET j == Target(a) IN
  /\ pc[a] = "deleteKeystore" /\ CtxAlive(a)
  /\ keystore' = [keystore EXCEPT ![j] = FALSE]
  /\ Goto(a, Resume(a)) /\ Forget(a)
  /\ UNCHANGED <<left, registered, jobVars, pod, eventVars, ctxVars,
                 resultVars, exited>>

\* The context is done or the request fails; a job without a keystore makes
\* no request, so that nothing can fail.
DeleteKeystoreFails(a) ==
  LET j == Target(a) IN
  /\ pc[a] = "deleteKeystore"
  /\ ~CtxAlive(a) \/ "deleteFails" \in Faults
  /\ \/ UNCHANGED keystore
     \/ "deleteFails" \in Faults /\ keystore' = [keystore EXCEPT ![j] = FALSE]
  /\ keystoreFailed' = keystoreFailed \cup ({j} \cap WithKeystore)
  /\ Goto(a, Resume(a)) /\ Forget(a)
  /\ UNCHANGED <<left, registered, jobVars, pod, eventVars, ctxVars, got,
                 reported, podFailed, exited>>

-----------------------------------------------------------------------------
(***************************************************************************)
(* Handler: UpdateFunc.                                                    *)
(***************************************************************************)

\* Handler starts on an update of j's Pod, which shows the phase in seen[j].
BeginUpdate(j) ==
  /\ pc[Handler] = "idle"
  /\ target' = [target EXCEPT ![Handler] = j]
  /\ Goto(Handler, "update")
  /\ UNCHANGED <<left, registered, jobVars, clusterVars, unchecked, allDone,
                 ctxVars, resultVars, exited>>

Shown == seen[target[Handler]]

\* The watch reported a change of the Pod.
OnUpdate(j) ==
  /\ queue[j] # <<>> /\ Head(queue[j]) # "gone"
  /\ seen' = [seen EXCEPT ![j] = Head(queue[j])]
  /\ queue' = [queue EXCEPT ![j] = Tail(@)]
  /\ BeginUpdate(j)

\* Every jobPollingInterval the informer repeats what it knows of the Pod.
OnResync(j) ==
  /\ seen[j] \in LivePhases
  /\ BeginUpdate(j)
  /\ UNCHANGED <<seen, queue>>

\* The job is done, or its Pod is waiting for something.
UpdateIgnored ==
  LET j == target[Handler] IN
  /\ pc[Handler] = "update" /\ Unlocked(j)
  /\ d[j] \/ Shown \in {"pending", "waiting"}
  /\ Goto(Handler, "idle") /\ Forget(Handler)
  /\ UNCHANGED <<left, registered, jobVars, clusterVars, eventVars,
                 ctxVars, resultVars, exited>>

\* The image cannot be pulled or the Pod ended: report it, terminate the job.
UpdateTerminates ==
  LET j == target[Handler] IN
  /\ pc[Handler] = "update" /\ Unlocked(j) /\ ~d[j]
  /\ Shown \in {"badImage", "ended"}
  /\ Report(j)
  /\ Goto(Handler, "mark")
  /\ UNCHANGED <<target, left, registered, jobVars, clusterVars, eventVars,
                 ctxVars, got, podFailed,
                 keystoreFailed, exited>>

UpdateExtracts ==
  LET j == target[Handler] IN
  /\ pc[Handler] = "update" /\ Unlocked(j) /\ ~d[j]
  /\ Shown = "ready"
  /\ Goto(Handler, "extract")
  /\ UNCHANGED <<target, left, registered, jobVars, clusterVars, eventVars,
                 ctxVars, resultVars, exited>>

(***************************************************************************)
(* Handler: extractFromRemote, which streams a tar of the output directory *)
(* and calls completeJob when the stream ends.                             *)
(***************************************************************************)

\* The stream breaks when the container is not running any more, when
\* ds.context is done, or with the connection.
Disconnected(j) == pod[j] # "ready" \/ CtxDone
CanBreak(j)     == Disconnected(j) \/ "streamCut" \in Faults

ExtractEnds(j, what) ==
  /\ pc[Handler] = "extract" /\ j = target[Handler]
  /\ got' = [got EXCEPT ![j] = what]
  /\ UNCHANGED <<left, registered, jobVars, clusterVars, eventVars, ctxVars,
                 podFailed, keystoreFailed, exited>>

CompleteJob(j, what) ==
  /\ ExtractEnds(j, what)
  /\ Goto(Handler, "mark")
  /\ UNCHANGED target

ExtractOk(j) ==
  /\ ~Disconnected(j)
  /\ CompleteJob(j, "full")
  /\ UNCHANGED reported

\* Mistake: the error of a broken stream is dropped.
ExtractCutSilently(j) ==
  /\ CanBreak(j)
  /\ \E what \in {got[j], "partial"} : CompleteJob(j, what)
  /\ UNCHANGED reported

\* The stream breaks before the first or between two entries of the tar: Copy
\* records the error, then closes the pipe, which reads like a regular end.
ExtractCut(j) ==
  /\ CanBreak(j)
  /\ \E what \in {got[j], "partial"} : CompleteJob(j, what)
  /\ Report(j)

\* It breaks within an entry: a job that is still open is tried again at its
\* next update.
ExtractFails(j) ==
  /\ CanBreak(j)
  /\ ExtractEnds(j, "partial")
  /\ Goto(Handler, "idle") /\ Forget(Handler)
  /\ Report(j)

\* The tar holds no file this job is interested in, and never did.
ExtractNothing(j) ==
  /\ "emptyOutput" \in Faults /\ ~Disconnected(j)
  /\ got[j] = "nothing"
  /\ CompleteJob(j, "empty")
  /\ UNCHANGED reported

(***************************************************************************)
(* Handler: DeleteFunc.                                                    *)
(***************************************************************************)
OnDelete(j) ==
  /\ pc[Handler] = "idle"
  /\ queue[j] # <<>> /\ Head(queue[j]) = "gone"
  /\ seen' = [seen EXCEPT ![j] = "gone"]
  /\ queue' = [queue EXCEPT ![j] = <<>>]
  /\ unchecked' = registered
  /\ allDone' = TRUE
  /\ Goto(Handler, "sweep")
  /\ UNCHANGED <<target, left, registered, jobVars, clusterVars, ctxVars,
                 resultVars, exited>>

\* The object is not a Pod: DeleteFunc returns.
OnTombstone(j) ==
  /\ "tombstone" \in Faults
  /\ pc[Handler] = "idle"
  /\ queue[j] # <<>> /\ Head(queue[j]) = "gone"
  /\ seen' = [seen EXCEPT ![j] = "gone"]
  /\ queue' = [queue EXCEPT ![j] = <<>>]
  /\ UNCHANGED <<pc, target, left, registered, jobVars, clusterVars,
                 unchecked, allDone, ctxVars, resultVars, exited>>

\* Mistake: the last job read decides.
SweepLast(k) ==
  /\ pc[Handler] = "sweep" /\ k \in unchecked
  /\ Unlocked(k)
  /\ unchecked' = unchecked \ {k}
  /\ allDone' = d[k]
  /\ UNCHANGED <<pc, target, left, registered, jobVars, clusterVars, seen,
                 queue, ctxVars, resultVars, exited>>

\* One turn of the loop over ds.jobs.
Sweep(k) ==
  /\ pc[Handler] = "sweep" /\ k \in unchecked
  /\ Unlocked(k)
  /\ unchecked' = unchecked \ {k}
  /\ allDone' = (allDone /\ d[k])
  /\ UNCHANGED <<pc, target, left, registered, jobVars, clusterVars, seen,
                 queue, ctxVars, resultVars, exited>>

\* ds.cancelFunc ends ds.context when every job was seen done.
SweepEnds ==
  /\ pc[Handler] = "sweep" /\ unchecked = {}
  /\ cancelled' = (cancelled \/ allDone)
  /\ allDone' = FALSE
  /\ Goto(Handler, "idle")
  /\ UNCHANGED <<target, left, registered, jobVars, clusterVars, seen, queue,
                 unchecked, interrupted, resultVars, exited>>

-----------------------------------------------------------------------------
(***************************************************************************)
(* The timer goroutine of job j.                                           *)
(***************************************************************************)
\* Mistake: the timer is not started.
StartNoTimer(j) ==
  /\ pc[j] = "start" /\ Unlocked(j)
  /\ Goto(j, "select")
  /\ UNCHANGED <<target, left, registered, jobVars, clusterVars, eventVars,
                 ctxVars, resultVars, exited>>

StartTimer(j) ==
  /\ pc[j] = "start" /\ Unlocked(j)
  /\ timer' = [timer EXCEPT ![j] = "armed"]
  /\ Goto(j, "select")
  /\ UNCHANGED <<target, left, registered, d, done, lock, clusterVars,
                 eventVars, ctxVars, resultVars, exited>>

\* Time passes; unless the timeout is short, scheduling is over by then.
TimerFires(j) ==
  /\ timer[j] = "armed"
  /\ pc[Main] \notin {"schedule", "list"} \/ "earlyTimer" \in Faults
  /\ timer' = [timer EXCEPT ![j] = "fired"]
  /\ UNCHANGED <<pc, target, left, registered, d, done, lock, clusterVars,
                 eventVars, ctxVars, resultVars, exited>>

\* select takes the timer's value: log it, terminate the job.
Timeout(j) ==
  /\ pc[j] = "select" /\ timer[j] = "fired"
  /\ timer' = [timer EXCEPT ![j] = "over"]
  /\ Report(j)
  /\ Goto(j, "mark")
  /\ UNCHANGED <<target, left, registered, d, done, lock, clusterVars,
                 eventVars, ctxVars, got, podFailed,
                 keystoreFailed, exited>>

\* select takes the done signal: the goroutine ends.
Released(j) ==
  /\ pc[j] = "select" /\ done[j] > 0
  /\ done' = [done EXCEPT ![j] = @ - 1]
  /\ Goto(j, "exited")
  /\ UNCHANGED <<target, left, registered, d, timer, lock, clusterVars,
                 eventVars, ctxVars, resultVars, exited>>

-----------------------------------------------------------------------------
(***************************************************************************)
(* The environment.                                                        *)
(***************************************************************************)

\* The life of a Pod: "waiting" stands for pending without an image error,
\* running but not ready, or unknown; "ended" for succeeded or failed.
NextPhases == [pending  |-> {"badImage", "waiting"}, badImage |-> {"waiting"},
               waiting  |-> {"ready", "ended"},      ready    |-> {"ended"},
               ended    |-> {}]

PodProgress(j) ==
  /\ pod[j] \in LivePhases
  /\ \E p \in NextPhases[pod[j]] :
       /\ pod' = [pod EXCEPT ![j] = p]
       /\ Notify(j, p)
  /\ UNCHANGED <<pc, target, left, registered, jobVars, keystore, seen,
                 unchecked, allDone, ctxVars, resultVars, exited>>

PodVanishes(j) ==
  /\ "podVanishes" \in Faults
  /\ pod[j] \in LivePhases
  /\ pod' = [pod EXCEPT ![j] = "gone"]
  /\ Notify(j, "gone")
  /\ UNCHANGED <<pc, target, left, registered, jobVars, keystore, seen,
                 unchecked, allDone, ctxVars, resultVars, exited>>

Interrupt ==
  /\ "interrupt" \in Faults
  /\ ~interrupted
  /\ interrupted' = TRUE
  /\ UNCHANGED <<pc, target, left, registered, jobVars, clusterVars, eventVars,
                 cancelled, resultVars, exited>>

-----------------------------------------------------------------------------
TerminateJob(a) ==
  \/ MarkDone(a) \/ SendDone(a)
  \/ DeletePod(a) \/ DeletePodFails(a)
  \/ DeleteKeystore(a) \/ DeleteKeystoreFails(a)

MainStep ==
  \/ \E j \in Jobs : Schedule(j) \/ Skip(j) \/ AbortSkipsDone(j) \/ AbortTerminates(j)
  \/ Bail \/ Scheduled \/ ListPods \/ StopInformer \/ Return \/ Exit

Update     == UpdateIgnored \/ UpdateTerminates \/ UpdateExtracts
Extract(j) == ExtractOk(j) \/ ExtractCut(j) \/ ExtractFails(j) \/ ExtractNothing(j)

HandlerStep ==
  \/ Update \/ SweepEnds
  \/ \E j \in Jobs :
       \/ OnUpdate(j) \/ OnResync(j) \/ Extract(j)
       \/ OnDelete(j) \/ OnTombstone(j) \/ Sweep(j)

TimerStep(j) == StartTimer(j) \/ Timeout(j) \/ Released(j)

OtherStep ==
  \/ \E j \in Jobs : TimerStep(j) \/ TimerFires(j) \/ PodProgress(j) \/ PodVanishes(j)
  \/ Interrupt

Step == MainStep \/ HandlerStep \/ OtherStep \/ \E a \in Actors : TerminateJob(a)

\* Every goroutine ends with the process.
Next == ~exited /\ Step

Spec == Init /\ [][Next]_vars

(***************************************************************************)
(* What the runtime and the API server owe the program: goroutines that    *)
(* can run do run, timers expire, a request is answered, and a broken      *)
(* stream ends. Notifications are handled in the order they came in, and   *)
(* none is delivered after the informer was stopped: both win against the  *)
(* resyncs that keep arriving, hence SF. A stream from a running container *)
(* may take for ever, a Pod may never become ready.                        *)
(***************************************************************************)
Fairness ==
  /\ WF_vars(~exited /\ MainStep)
  /\ SF_vars(~exited /\ StopInformer)
  /\ \A a \in Actors : WF_vars(~exited /\ TerminateJob(a))
  /\ WF_vars(~exited /\ Update)
  /\ WF_vars(~exited /\ SweepEnds)
  /\ \A j \in Jobs :
       /\ WF_vars(~exited /\ TimerStep(j))
       /\ WF_vars(~exited /\ TimerFires(j))
       /\ WF_vars(~exited /\ Sweep(j))
       /\ SF_vars(~exited /\ OnUpdate(j))
       /\ SF_vars(~exited /\ (OnDelete(j) \/ OnTombstone(j)))
       /\ WF_vars(~exited /\ Disconnected(j) /\ Extract(j))

FairSpec == Spec /\ Fairness

-----------------------------------------------------------------------------
(***************************************************************************)
(* Safety.                                                                 *)
(***************************************************************************)

\* Every variable has its type: a channel of capacity 1, a lock held by one
\* goroutine, a bounded queue of phases per Pod.
TypeOK ==
  /\ pc \in [Actors -> MainPC \cup HandlerPC \cup TimerPC]
  /\ pc[Main] \in MainPC /\ pc[Handler] \in HandlerPC
  /\ \A j \in Jobs : pc[j] \in TimerPC
  /\ target \in [{Main, Handler} -> Jobs \cup {None}]
  /\ left \subseteq Jobs /\ registered \subseteq Jobs
  /\ d \in [Jobs -> BOOLEAN]
  /\ timer \in [Jobs -> {"nil", "armed", "fired", "over"}]
  /\ done \in [Jobs -> 0..1]
  /\ lock \in [Jobs -> Actors \cup {None}]
  /\ pod \in [Jobs -> Phases] /\ seen \in [Jobs -> Phases]
  /\ keystore \in [Jobs -> BOOLEAN]
  /\ queue \in [Jobs -> Seq(Notices)]
  /\ unchecked \subseteq Jobs /\ allDone \in BOOLEAN
  /\ interrupted \in BOOLEAN /\ cancelled \in BOOLEAN
  /\ got \in [Jobs -> {"nothing", "partial", "full", "empty"}]
  /\ reported \in [Jobs -> BOOLEAN]
  /\ podFailed \subseteq Jobs /\ keystoreFailed \subseteq Jobs
  /\ exited \in BOOLEAN

\* A goroutine holds the write lock of a job exactly while it is inside the
\* job's MarkDone, at the send: nothing reads or writes d in between, and no
\* two goroutines are in it at once.
LockDiscipline ==
  \A j \in Jobs : \A a \in Actors :
    lock[j] = a <=> pc[a] = "send" /\ Target(a) = j

\* DeleteFunc cancels the context only when every registered job is done,
\* although it reads them one at a time while timers and deletions go on.
CancelImpliesAllDone == cancelled => \A j \in registered : d[j]

\* The call does not come back from extractJobResults with an open job,
\* whether it ended by itself or by an interrupt.
ReturnedAllDone == pc[Main] = "returned" => \A j \in registered : d[j]

\* A job that is done leaves its timer goroutine a way to end: as long as
\* that goroutine is on its way to the select, or in it, the channel holds
\* the signal. MarkDone may run before StartTimer did.
DoneSignalNotLost ==
  \A j \in Jobs :
    d[j] /\ lock[j] = None /\ pc[j] \in {"start", "select"} => done[j] = 1

Cleaning(j) ==
  \E a \in Actors : Target(a) = j /\ pc[a] \in {"send", "deletePod", "deleteKeystore"}

\* Once a job is done and nobody is cleaning up after it, its Pod is gone or
\* the deletion of the Pod failed, and so for its Secret: a Pod that was not
\* there or could not be deleted is no reason for the Secret to stay.
DoneMeansClean ==
  \A j \in Jobs : d[j] /\ ~Cleaning(j) =>
    /\ pod[j] \in LivePhases => j \in podFailed
    /\ keystore[j] => j \in keystoreFailed

\* While the informer runs, a deletion is all that can end it. So once every
\* job is done and the deletions are made, a notification is still to come, is
\* being handled by a sweep that missed nothing, or the context was cancelled.
LastDeletionWakesUp ==
  /\ pc[Main] = "inform"
  /\ \A j \in registered : d[j] /\ ~Cleaning(j)
  => \/ CtxDone
     \/ pc[Handler] = "sweep" /\ allDone
     \/ \E j \in registered : \E i \in DOMAIN queue[j] : queue[j][i] = "gone"

\* What the archive says of a job that is done: it has all the results there
\* were, or an error or a log line about it. The case that is hard is a stream
\* that breaks between two files and looks complete.
DoneIsExplained == \A j \in Jobs : d[j] => got[j] \in {"full", "empty"} \/ reported[j]

\* A second MarkDone found the signal of the first still in the channel, and
\* the only goroutine that would receive it is past its select. The lock is
\* never released.
Stuck(j) == lock[j] # None /\ done[j] = 1 /\ pc[j] \notin {"start", "select"}
SomeStuck == \E j \in Jobs : Stuck(j)

\* What a comment in MarkDone says: it does not block under any circumstance.
MarkDoneNeverBlocks == \A j \in Jobs : ~Stuck(j)

\* Neither the Pod of a job nor its Secret is left in the cluster.
Clean(j) == pod[j] \notin LivePhases /\ ~keystore[j]

\* What a comment in extractJobResults says: jobs that an interrupt left open
\* are stopped before the call returns, those nobody is cleaning up any more.
InterruptedIsClean ==
  pc[Main] = "returned" => \A j \in Jobs : Cleaning(j) \/ Clean(j)

(***************************************************************************)
(* The call as a session: what its caller can tell of it. A job's status   *)
(* is its flag d, the session is where Main is.                            *)
(***************************************************************************)
status == [j \in Jobs |-> IF j \notin registered THEN "unscheduled"
                          ELSE IF d[j] THEN "done" ELSE "open"]

session == IF pc[Main] = "schedule" THEN "scheduling"
           ELSE IF pc[Main] = "returned" THEN "over"
           ELSE IF pc[Main] = "bailed" THEN "abandoned" ELSE "collecting"

Session == INSTANCE DiagSession

\* Every behaviour of the call is a behaviour of a session: no job is reopened
\* and the session does not close on an open job.
IsSession == Session!Spec

(***************************************************************************)
(* extractFromRemote as CopyStream shows it to be.                         *)
(***************************************************************************)
Ext(j) == INSTANCE Extraction WITH
  extracting   <- pc[Handler] = "extract" /\ target[Handler] = j,
  got          <- got[j],
  reported     <- reported[j]

\* Each job's extractions are those that CopyStream's goroutines carry out: the
\* handler comes back from one with the results or with an error, also when it
\* is repeated.
IsExtraction ==
  /\ \A j \in Jobs : Ext(j)!Init
  /\ [][\A j \in Jobs : [Ext(j)!Next]_(Ext(j)!vars)]_vars

(***************************************************************************)
(* What makes the above hold at each step: an inductive invariant.         *)
(***************************************************************************)

\* Whatever is known of a job, by its goroutine, the cluster or the informer,
\* is known of a registered job.
KnownAreRegistered ==
  \A j \in Jobs : j \notin registered =>
    pc[j] = "none" /\ ~d[j] /\ pod[j] = "none" /\ seen[j] = "none" /\ queue[j] = <<>>

\* Main and Handler work on registered jobs.
TargetsRegistered ==
  /\ pc[Main] \in Terminating => target[Main] \in registered
  /\ pc[Handler] \in {"update", "extract"} \cup Terminating => target[Handler] \in registered

\* No job is registered once Handler runs; the jobs behind a loop are done.
SchedulingIsOver == pc[Handler] # "off" => pc[Main] = "inform"
ScheduleLoop == pc[Main] = "schedule" => ~cancelled /\ left \cap registered = {}
SweepLoop == pc[Handler] = "sweep" /\ allDone => \A k \in registered \ unchecked : d[k]
AbortLoop ==
  pc[Main] \in {"abort"} \cup Terminating =>
    /\ left \subseteq registered
    /\ \A j \in registered \ left : d[j] \/ (pc[Main] = "mark" /\ target[Main] = j)

\* The conjunction that every step preserves.
IndInv ==
  /\ TypeOK /\ LockDiscipline /\ DoneSignalNotLost
  /\ KnownAreRegistered /\ TargetsRegistered
  /\ SchedulingIsOver /\ ScheduleLoop /\ SweepLoop /\ AbortLoop
  /\ CancelImpliesAllDone /\ ReturnedAllDone

(***************************************************************************)
(* Liveness, under Fairness.                                               *)
(***************************************************************************)

\* The call ends, however the Pods behave: every job is completed or times
\* out, its deletion is noticed, and the last one stops the informer.
Returns == <>(exited \/ SomeStuck)

\* Everything is done and no deletion is to come that would end the informer;
\* Handler is at rest, or reads from a Pod whose deletion failed.
Stranded ==
  /\ pc[Main] = "inform" /\ ~CtxDone
  /\ \/ pc[Handler] = "idle"
     \/ pc[Handler] = "extract" /\ target[Handler] \in podFailed
  /\ \A j \in registered :
       /\ d[j] /\ ~Cleaning(j)
       /\ \A i \in DOMAIN queue[j] : queue[j][i] # "gone"

\* Whatever fails, that is the only other way for the call not to end: no job
\* stays open for ever, and no goroutine waits for another. (LastDeletionWakesUp
\* says when it cannot happen.)
ReturnsUnlessStranded == <>(exited \/ SomeStuck \/ Stranded)
=============================================================================
