# eck-diagnostics in TLA+

`eck-diagnostics` is a command-line tool that support engineers and users run
against a Kubernetes cluster with the ECK operator. It collects Kubernetes
objects and logs into a zip archive and, per namespace, runs two kinds of remote
diagnostics: *stack diagnostics* (a temporary Pod per Elasticsearch, Kibana or
Logstash, whose results are streamed out of the Pod) and *agent diagnostics*
(a command run inside every Elastic Agent Pod). It has no state of its own
besides the archive, but it is concurrent where it talks to the cluster, and it
creates and must remove objects there.

These modules model that behaviour; TLC checks them on small instances and TLAPS
proves the main results for instances of any size. `PROJECT.json` lists the
parts, the runs, the code lines that each definition stands for, the hazards and
the theorems.

    tlc -workers 2 -config AgentDiag.cfg MCAgentDiag
    tlapm AgentDiagProofs.tla

## The system

| Part (source under `src/`) | State | Operations | Talks to |
|---|---|---|---|
| Run (`internal/diag.go`) | context, operator labels and versions, filters | look at each operator, loop over the namespaces, collect, close the archive | everything below; cancelled by Ctrl-C |
| Stack diagnostics jobs (`internal/stackdiag.go`) | `diagJob` (`d`, `timer`, `done`, lock), `ds.jobs`, `ds.context` | schedule, informer callbacks, extract, complete, time out, abort, terminate | API server, informer, exec stream, archive |
| Scheduling (`internal/stackdiag.go`, `internal/clientcert.go`) | the resource being visited, Pod and keystore Secret in the cluster | list, read, find credentials, create the Secret, render and create the Pod, register, clean up | API server, archive |
| Agent diagnostics (`internal/agentdiag.go`) | jobs, channel `workCh`, `execErr` | select, send, work, wait, copy, remove | exec in containers, archive |
| Filters (`internal/filters`) | none | `Empty`, `Matches`, `Contains` of type and label filters, `Or`, `And` | used by Run and all collectors |
| Kubernetes queries and logs (`internal/kubectl.go`) | none | `GetByLabel`, `GetByName`, `Logs`, `GetMeta`, `Describe` | API server |
| Remote copy (`internal/kubectl.go`, `internal/extraction`) | a pipe between two goroutines | `Copy`, `UntarIntoZip`, drain | exec stream, archive |
| Archive (`internal/archive`) | entries, errors, manifest | `Create`, `Add`, `AddError`, `Close` | file system |
| Operator and version detection (`internal/operator.go`, `internal/version.go`) | none | parse flags, environment and config map of the operator; maximum version | API server |
| Command line, about, log, Pod template | none | validate flags | |

Where it is hard:

* **Stack diagnostics.** Main, the informer's handler goroutine and one timer
  goroutine per job share the `diagJob` objects and may all terminate the same
  job. The informer is stopped by a notification about a *deletion*, which the
  code itself caused; so marking, deleting and being notified have an order that
  matters. Ctrl-C, timeouts, broken streams and failing requests come at any time.
* **Agent diagnostics.** `execErr` is written by the workers and read by Main
  without a lock. An interrupt drops jobs that were never run, and those look
  like successes.
* **Scheduling.** Up to nine requests per resource, each of which may fail, or
  take effect although its reply is lost; a keystore Secret holds key material.
* **Remote copy and archive.** The stream is written by one goroutine and unpacked
  by another. A stream that breaks between two tar entries looks complete to the
  reader; one that is not read to its end would leave the writer blocked. Both
  goroutines append to the same list of errors without a lock, and what has been
  written to the archive cannot be taken back.
* **Operator detection.** Up to four requests per operator, each of which may fail
  after something is known already, and a precedence of four sources, one of them
  a file that has to be traced through mounts and volumes.
* **Filters.** Every collector takes the combined filters in another way: by
  name, by label, through the name of a CRD, or through a conjunction of
  disjunctions for the logs.

What makes each part correct is stated by the properties listed under "Runs".

## Modules

| Module | Models | Used by |
|---|---|---|
| `DiagSession` | what a call of `runStackDiagnostics` promises: a job is opened once, finished once, and collecting ends with no open job | refined by `StackDiag`, its scheduling by `ScheduleJobs` |
| `Extraction` | what extracting the results of one Pod promises: they are in the archive, or an error is | refined by `StackDiag` and `CopyStream` |
| `StackDiag` | one call of `runStackDiagnostics` | `MCStackDiag`, `StackDiagProofs`, `StackDiagOutcomes`, `StackDiagWakeUp` |
| `CopyStream` | the extraction itself: `Kubectl.Copy`, `UntarIntoZip`, their callers, and the `ZipFile` from its first file to `Close` | `MCCopyStream`, `CopyStreamProofs` |
| `ScheduleJobs` | the requests behind `StackDiag`'s steps `Schedule` and `Skip` | `MCScheduleJobs`, `ScheduleJobsProofs` |
| `AgentDiag` | one call of `runAgentDiagnostics` | `MCAgentDiag`, `AgentDiagProofs` |
| `Filters` | the filters as records of what their methods answer | instantiated by `DiagRun` |
| `DiagRun` | `Run`, with the outcome of every collector | `MCDiagRun`, `DiagRunProofs` |
| `Operator` | `detectOperatorInfo`, version detection and `warnMissingNamespaces` | `MCOperator`, `OperatorProofs` |

The `MC` modules only give constants their values. Operators whose comment
begins with "Mistake:" are wrong variants of the definition that follows them;
no specification uses them. They show that a property can tell the code from a
plausible slip in it (`mutants` in `PROJECT.json`).

### StackDiag

Goroutines are `Main`, `Handler` and, named by the job itself, the timer goroutine
of each job; `pc[a]` is where goroutine `a` is and `target` the job that Main or
Handler works on. `d`, `timer`, `done` and `lock` are the fields of `diagJob`;
`registered` is `ds.jobs`; `interrupted` and `cancelled` make up `ds.context`.
`pod` and `keystore` are what the cluster holds, `seen` the informer's cache, and
`queue` the notifications that wait for the handler. `got` and `reported` record what
the archive has of a job, `podFailed` and `keystoreFailed` for which jobs the deletion
of the Pod or of the Secret returned an error; it may have been carried out all the same.

* `Schedule`, `Skip`, `Bail`, `Scheduled`: `scheduleJobs` for one resource, and the
  ways out of the loop. A resource that is skipped leaves no Pod here, though its
  creation may have been carried out (`ScheduleJobs` has that): the callbacks return at
  once for a Pod that is not in `ds.jobs`.
* `ListPods`, `StopInformer`, `AbortSkipsDone`, `AbortTerminates`, `Return`:
  `informer.Run` and `abortAllJobs`.
* `MarkDone`, `SendDone`, `DeletePod`, `DeleteKeystore` and their failures:
  `terminateJob`, one step per lock operation, channel send and request, run by
  any goroutine. `MarkDone` leaves the lock held and `SendDone` blocks while the
  channel holds a signal, as in the code.
* `OnUpdate`, `OnResync`, `UpdateIgnored`, `UpdateTerminates`, `UpdateExtracts`:
  `UpdateFunc`; between the check of `Done()` and what follows from it every other
  goroutine may run.
* `ExtractOk`, `ExtractCut`, `ExtractFails`, `ExtractNothing`: the outcomes of
  `extractFromRemote`. A stream that breaks *between* two tar entries looks
  complete to the reader, one that breaks *within* an entry does not.
* `OnDelete`, `Sweep`, `SweepEnds`, `OnTombstone`: `DeleteFunc`; the loop over
  `ds.jobs` is one step per job because each `Done()` takes a lock of its own.
* `StartTimer`, `TimerFires`, `Timeout`, `Released`: the timer goroutine.

`Faults` says what the environment may do beyond a clean run, so that a run can
name the cause it needs. `status` and `session` map the call to `DiagSession`.

### CopyStream

Reader and Streamer are the two goroutines of a copy, joined by an `io.Pipe` without a
buffer; `rpc` and `wpc` are where they are. `tar` is what the container has to offer,
`ent` and `unit` the next piece of it to go through the pipe, `cur` and `n` the entry
that is unpacked and how many of its files were. An archive inside the tar is unpacked
while it is read (tar.gz) or after it was read whole (zip), and its last file may be
corrupt. What is unpacked twice is in the archive twice, and whoever unpacks the archive is
left with the later copy (`LatestCopyWins`). `added`, `entries`, `manifest` and `errs` are the content of the `ZipFile`;
`disk` says whether the disk still takes what is written, and whether the `zip.Writer`
has noticed that it does not.

* `Copy`, `CopyFails`, `StreamEnds`, `StreamBreaks`, `RecordLoads`, `RecordStores`,
  `ClosePipe`: `Kubectl.Copy`, and the goroutine it starts. `AddError` is two steps,
  reading the slice and storing the longer one, because two goroutines do it.
* `Skip`, `NextMatches`, `NextIsEnd`, `NextIsEof`, `NextIsCut`: `tarReader.Next` and the
  choice of what to do with the entry; `NextIsEof` is the cut that looks like an end.
* `ReadsZip`, `UnpackFile`, `UnpackCorrupt`, `UnpackToFullDisk`, `UnpackCut`: the
  repackaging, file by file, with all that can end it.
* `Complete`, `CompleteFails`, `FailLoads`, `FailStores`, `Drain`, `Drained`: what the two
  callers do with the result. A stack job that is not completed is extracted again
  (`idle`, at most `MaxTries` times), an agent job is not.
* `AddFile`, `AddFileFails`, `AddCreateFails`, `WriteLog`, `CloseZip`: `ZipFile.Add` for a
  batch in any order, the log, and `Close`. `Add` stops at an entry that cannot be created,
  which happens only once the `zip.Writer` has failed; `Close` fails then, too, and says so,
  so that nothing in a run depends on where `Add` stopped.

An archive inside the tar holds at least one file. `StackDiag` has each extraction as one
step with an outcome (`ExtractOk`, `ExtractCut`, `ExtractFails`, `ExtractNothing`);
`CopyStream` has the steps inside. Both are shown to implement `Extraction`, which is what
the one promises to the other: when the call comes back, the archive has all results,
or the Pod had none, or there is an error.

### AgentDiag

`jobs`, `workCh`, `closed` and `interrupted` are the variables of the same names
(the last one the context); `next` is the index of Main's two loops. `exec[p]` is
how the command in Pod `p` went, and `execErr` is nil exactly when it is "none" or
"ok". `remote` is the result file in the container: a command whose exec timed out
may go on and write it later. `copied` and `reported` are what the archive holds.
Worker `w` is "absent", "idle", "exited", or has a Pod. The capacity of the
channel and the number of workers are the `min(concurrency, len(jobs))` of the code.

### ScheduleJobs

One goroutine, one control point per request (`pc`). `pod` and `keystore` may be
"stale" at the start: a run that was killed left objects of the same name behind.
A request fails without effect ("failed"), or takes effect and its reply is an
error ("lost"). `fault` is a history variable: what went wrong with a resource,
whether or not the code recorded it; `reported` is what the archive says. The
three types are sets of resources and `types` the order the code visits them in.
`status` and `session` map it to the scheduling phase of `DiagSession`: where `StackDiag` has
one step for a resource, this module has all requests, and its `Register` is that step.
`RenderFails` is also what becomes of an invalid `--pod-template-patch`, once per resource.

### Filters and DiagRun

A filter is the record of what `Empty`, `Matches` and `Contains` answer, for the
labels and names of the instance: `Or`, `And`, type and label filters are functions
from such records to such records. The table of resource types (`resourceDescriptors`)
is kept in full, because the point of it is which of the four spellings of a type
goes where. A label is its key's prefix, its name in the key and its value. Two assumptions
say what the objects and the flags are: an object has one value for a key (`LabelsAreMaps`),
and a type filter has a name for types the table knows (`FiltersAreParsed`), because `parse`
refuses anything else. `DiagRun` has one action per collector and namespace, in the code's
order; an action either succeeds or records an error and loses objects. What the
diagnostics do once they are called is left to `StackDiag` and `AgentDiag`.

### Operator

One step per request; `at` is the next one, and `RequestFails` may end any of them
(a Deployment that is not found is the same to the code as a request that failed).
`infos` is `operatorInfos`, `said` what `warnMissingNamespaces` logs. What the code does
between two requests is pure, and is written as operators with the names of its
functions: `detectInstallMethod`, `findConfigMapForPath`, `splitCSV` and so on. Labels,
flags, variables, mounts, volumes and ConfigMaps are records and sequences of what the
code tells apart in them; a comma-separated list is a sequence and a path is one. A list in
the YAML of the config file is taken item by item, while a string is split at its commas:
both are such a sequence here, so an item that has a comma in it, or is blank, is not told
apart.

The properties compare this with what the operators in the cluster do (`Running`,
`Manages`, `Seen`), which is not in `src/` and is modelled from what the code says of it
(`operator.go:139-140`): flag before variable before file, repeated flags add up, a list
without a name restricts nothing, a process sees the file of the deepest mount, and of
two variables of a name or two `--config` flags the last. Where a key of a ConfigMap shows
up in the container (`InVolume`, `ShownAt`) is stated without the help of
`findConfigMapForPath`, which goes the other way, from the file to the key.

What may be installed is the constant `Installs`. `Installable` says of each installation
that its parts have their types, that mounts and volumes fit together (`IsMounted`: a mount
has its volume, no two items a path, a config file is no directory), and that a version label or the tag of the operator's
image, where it can be parsed, is the version that runs; the code has no way to tell.
`FallbackIsMax` says that no version is above `fallbackMaxVersion`.
`NothingMissedSilently` speaks of an operator whose container is called `manager` and to
which none of three cases applies that the code does not see (`Legible`): `Hollow` and
`Nested`, described under "What the runs refute", and `Repeated`, two variables or two
config files, of which the code takes the first.

## Runs

| Run | Instance | Asks |
|---|---|---|
| `stack_two_jobs` | 2 jobs, interrupts, types that cannot be listed | cancels only when all jobs are done (`CancelImpliesAllDone`), is sure to be woken after the last deletion (`LastDeletionWakesUp`), is a session (`IsSession`) |
| `stack_faults` | 1 job, every fault | lock, done signal, clean-up and explanation of every job; the inductive invariant; it implements `Extraction`; the call ends unless one of two named situations occurs (`ReturnsUnlessStranded`) |
| `copy` | 9 tars, 2 files in the batch, 2 tries, both callers, every fault | no goroutine is left behind (`QuietAfterReturn`), what is completed, listed, failed or closed is explained by the archive, of files unpacked again the latest is whole (`LatestCopyWins`), it implements `Extraction`, and the archive is closed in the end (`Ends`) |
| `agent` | 3 Pods, 2 workers | no race on `execErr`, nothing copied that was not run, nothing run twice, no Pod forgotten, the call ends |
| `schedule` | 2 Elasticsearch, 1 Kibana | registered jobs are ready, no resource is lost without a word, leftovers are explained, what can be scheduled is |
| `run` | 3 resources, 2 operators | operators are kept, type filters hold, resources and Pods go together, diagnosed is collected, logs are complete |
| `operator` | 2 operator namespaces with any of 34 installations | no managed namespace is left out without a word (`NothingMissedSilently`), no operator is newer than the version taken (`VersionCoversAll`) |
| `stack_markdone_blocks`, `stack_interrupt_leaves`, `stack_pod_vanishes`, `schedule_logstash`, `run_filters_voided` | | each refutes a statement of the code or its documentation, see below |

### Bounds

* `StackDiag`: two jobs are what it takes for one job's sweep to miss another's end
  and for a loop to stop early; nothing in the code treats three jobs differently
  from two, and the proofs cover any number. Faults are checked with one job: they
  act on one job each, but for a type that cannot be listed, which `stack_two_jobs` has
  because it strands the jobs registered before it. Timers fire once, a Pod's phases are a finite order (the
  image error may come and go once), and notifications are at most one per phase,
  so no counter had to be cut. `stack_two_jobs` uses symmetry of the two jobs, which
  are alike, for safety and the refinement (a formula without fairness); liveness
  is checked without symmetry.
* `CopyStream`: an entry has at most two files, so that one can be whole and the next one
  not; tars have no, one or two wanted entries of each kind, beside one that is ignored.
  Two tries are what it takes to repeat a file; the third is like the second. One Pod:
  the Pods of a call are extracted one after the other.
* `Operator`: two operator namespaces, so that one fails and the other does not; a
  namespace that is collected, one that is not, and one that a selector picks. The 34
  installations are those of the repository's tests and combinations they lack: a
  sidecar before the operator, two operators, another Helm release beside it, two
  mounts above one another. The ConfigMap has other keys beside the one that is mounted,
  with files that name fewer namespaces, so that to read a wrong key is to miss some.
* `AgentDiag`: three Pods and two workers give more jobs than workers and a
  channel that fills up, so that Main blocks in `sendLoop`.
* `ScheduleJobs`: two resources of one type and one of another reach every
  transition between resources and types; resources do not interact otherwise.
* `DiagRun`: a resource whose type is spelled in one way (elasticsearch), one with all
  four different (autoops-agent), one with a minimum version (agent); an operator
  in a namespace of its own and one beside the workload, found by the two kinds of
  label. `Versions` has one below every minimum version and the fallback above all.
  `Cut` bounds what a failing step loses: everything or nothing of what it wanted.

`CHECK_DEADLOCK FALSE` is used in the runs of `StackDiag`, where the process exits and
every goroutine stops with it (whether something is stuck before that is asked by
`ReturnsUnlessStranded` and `MarkDoneNeverBlocks`), and in `operator`, which stops when
the messages are written.

### Fairness

Goroutines that can run do run (weak fairness of each goroutine's steps), a timer
expires, a request to the API server is answered, and the stream from a Pod that
is gone or whose context is done comes to an end. Strong fairness is needed in
three places, all of them because resyncs keep arriving every ten seconds and
compete with another event for the handler: the next notification of a Pod, its
deletion, and the end of the informer once its context is done. The informer's
queue is first-in first-out, so the code has it. Nothing is assumed about Pods:
they may hang in any phase, and a stream from a running container may take for
ever; the timeout is what ends those. Nobody has to press Ctrl-C. In `AgentDiag`
an exec returns because it runs under a timeout, and a copy ends. In `CopyStream` both
goroutines run when they can, and the remote command writes what it has as long as
somebody reads it. Nothing makes a connection break, so a reader that stopped reading
would leave the writer where it is, and `Ends` would see it.

## What the runs refute

Five runs expect a violation; each is a disagreement between the code and what a
comment or a document says of it (`findings`).

1. `MarkDoneNeverBlocks`. "we don't want to block under any circumstance": the timer
   goroutine has taken its timer when the handler, or `abortAllJobs`, has already
   read `Done()` as false. Both call `MarkDone`; nobody is left to receive the first
   signal, so the second send on the channel of capacity 1 blocks, with the job's lock
   held. `Returns` excludes this case with `SomeStuck`.
2. `InterruptedIsClean`. The handler marks a job done and then deletes with
   `ds.context`, which the interrupt cancelled; `abortAllJobs` skips the job.
3. `Returns` with a Pod that vanishes. The deletion is seen while the job is open,
   the later deletion on timeout finds nothing, and no other notification comes.
   Other faults end the same way: `deleteFails`, `tombstone` (a
   `DeletedFinalStateUnknown` is dropped) and `earlyTimer` (the Pod is deleted before
   the informer listed it).
4. `SupportedIsScheduled` with a Logstash. It has no `esName`, so the look-up of the
   credentials fails and no Logstash is ever diagnosed.
5. `OnlyNamedCollected`. When no operator label is found, the empty operator filter
   is an alternative of an `Or`, which makes the whole disjunction empty: the filters
   of the user are not applied. `TypeFiltersHold` is what remains true.

More was met on the way. The models follow the code in it, and the properties are
stated so that they allow it and nothing else:

* A type that cannot be listed after another was scheduled makes `runStackDiagnostics`
  return without `abortAllJobs` (`Bail`); `stack_two_jobs` has it with one job or both
  registered.
* `README.md:186` and the help of `--pod-template-patch` (`cmd/main.go:61`) say that the tool
  exits with an error, "before contacting the API server", when the patch removes the
  container of the diagnostics, its command or its arguments. It does neither. The command
  line only checks that the file is not empty and is YAML (`main.go:123-135`); the patch is
  merged and checked for each resource (`stackdiag.go:205-214`, called at 245), after the
  resources were listed, their credentials looked up and, where there is a client
  certificate, a Secret with the key material created. The error is recorded, the Secret
  deleted, the next resource tried (559-563), and the tool ends as usual, with an archive
  that has no stack diagnostics. `ScheduleJobs` follows the code (`RenderFails`, then
  `CleanUpKeystore`): `SettledIsExplained` says that each resource has its error, and
  `LeftoversAreExplained` that no key material stays; no property has the tool exit.
* The Pod turns ready whatever the diagnostics script returned, so a job may be completed
  although there was nothing to extract (`got = "empty"`).
* A stream that breaks between two entries completes the job; its error is on record
  (`CompletedIsExplained`).
* `AddError` promises errors that are "persistent" (`archive.go:103`), but two goroutines
  may append at the same time and one error is lost. `SomeErrorSurvives` says what stays.
* "Exactly one of Static or Selector is set when All is false" (`operator.go:26`) does not
  hold for a flag or variable without a name (`--namespaces=`): both are empty, and nothing
  is said of the namespaces left out. In the file, an empty list counts as all. This is
  `Hollow`, which `NothingMissedSilently` excludes.
* Of two mounts above one another the code follows the first, the process sees the deepest
  (`Nested`, excluded likewise).

## Proofs

All theorems hold for any set of jobs, Pods, resources, objects, filters, tars or installations
and, in `StackDiag` and `CopyStream`, any faults unless a theorem names those it excludes.

**`StackDiagProofs`.** The assumptions are that goroutines and jobs have different
names, `WithKeystore` is a set of jobs and `Faults` one of faults. `IndInv` adds to
the properties what they need to be inductive: a job of which anything is known is
registered (`KnownAreRegistered`), Main and Handler work on registered jobs
(`TargetsRegistered`), no job is registered while the handler runs
(`SchedulingIsOver`, `ScheduleLoop`), and the jobs that a loop is past are done
(`SweepLoop`, `AbortLoop`). The argument for `CancelImpliesAllDone` is that `d` never
goes back and that `registered` does not grow during a sweep, so jobs seen done one
at a time are done together at the end. Proved from it: `TypeCorrect` (with the
capacity of the channels), `MutualExclusion`, `CancelIsSafe`, `SignalIsKept` and
`ImplementsSession`, the refinement of `DiagSession`: each step maps to one of its
steps or leaves `status` and `session` alone.

**`StackDiagOutcomes`** builds on these. `DoneJobsAreExplained`: whoever is about to mark a
job done has seen to its explanation before (`ExplainedInv`). `DoneJobsAreClean`: as long
as there is a Pod or Secret of a job that is done, and its own deletion did not fail, somebody
is on the way to delete it (`CleanInv`); a Pod that could not be deleted is no excuse for a
Secret that was not tried. `ImplementsExtraction`: a job whose results are there is
done or marked next, so it is not extracted again and what is there only grows
(`ExtractInv`). `LeftoversHaveCause`: once the call is back, what is left of a registered job
is being deleted or a deletion of it failed, which is what remains of the comment that
`InterruptedIsClean` refutes.

**`StackDiagWakeUp`** proves `LastDeletionWakesUp`, and with it that the call is never left
waiting with all jobs done (`NeverStranded`), when four of the faults are absent
(`Unhindered`); a broken stream, an empty result, a failed list and an interrupt are allowed.
`stack_pod_vanishes` shows what a vanishing Pod does, and the other three end the same way.
`WakeInv` is the argument: nothing is
deleted before the informer lists it (`NothingEarly`), so each Pod's deletion is in the queue or
the handler knows of it (`DeletionsAreTold`); a Pod is deleted after its job was marked
(`DeletedAreDone`), so a sweep finds every job done whose deletion the handler knows of; hence
the sweep that the last deletion starts cannot stop at an open job (`LastSweep`). `WakeInv` was
also checked by TLC with two jobs.

**`CopyStreamProofs`.** The assumptions are that the tars are sequences of entries and that
the log is not in the batch. `IndInv` consists of where Reader is in the tar (`Place`),
`QuietAfterReturn`, and five parts. `FilesInv`: the entries before the current one are in
the archive, and its first `n` files. `ErrInv`: what a goroutine has read of `errs` lacks
no error of an earlier try, so that storing it loses none; this is why one error per try
survives the race. `EndInv`: when the pipe is closed before the end of the tar, the error of
the stream is on record before Reader can see it. `WholeInv`: a try that went well so far, or was
completed, left no file cut short; as all its files are there (`FilesInv`), they are the
latest copies. `BatchInv`: a file of the batch is still to
be added, is there, or has an error, unless the writer is broken, and then `Close` returns
an error. Proved: one theorem for each safety property of the run, and
`ImplementsExtraction`.

**`AgentDiagProofs`.** The assumptions are a concurrency of at least 1, which the
command line enforces (`cmd/main.go:88`), and that a Pod's name is not the name
of a worker's state. `IndInv` says that a job is in one place at a time (`JobsDistinct`,
`JobPlaces`: to be sent, once in the channel, or with one worker), that without an
interrupt none is dropped (`NotDropped`), what the phases of the pool are
(`PoolPhases`), and that the collecting loop leaves only Pods behind that are accounted
for (`AccountedSoFar`). `CopiedWasExecuted` rests on `NotDropped`: a nil `execErr`
without an interrupt means that the job left the channel, so it was run.
Proved: `ReadsAfterWrites`, `CopiesOnlyResults`, `RunsOnce`, `NothingForgotten`,
`TypeCorrect`.

**`ScheduleJobsProofs`.** The assumptions are that the types have no resource in
common and `None` is none. `IndInv` divides the resources in three: those pending have
no object of this run (`PendingUntouched`), the current one has a keystore exactly when
it mounts one (`MidVisit`), and those visited satisfy every property (`WellSettled`);
`VisitedOnce` keeps the three apart. A step of a visit changes nothing but the current
resource, so each action has to keep `MidVisit` (lemma `Stays`) or to establish
`WellSettled` of the resource it leaves (lemma `Leaves`). Proved: `ReadyJobs`, `NoneLost`,
`NoKeyMaterialLeft`, `TypeCorrect` and, where there is no Logstash, `OthersAreScheduled`; and
`ImplementsSessionStart`, the refinement of `DiagSession`, in which a resource that is
registered has no job yet because it was not visited before. TLC found no counterexample to
that refinement on the instances of `schedule` and `schedule_logstash`.

**`DiagRunProofs`.** The assumptions are `LabelsAreMaps` and `FiltersAreParsed`. A first group of
lemmas is about the table of types: no two types share a custom resource or a type label
(`TypesDiffer`), every custom resource that Run collects is in the table (`CRDHasType`), and
labels that satisfy the selectors of two named resources are those of one (`SelectorNamesOne`).
A second says what the combined filters answer for an object: `NamespaceFiltersEmpty`,
`NamespaceFiltersMatch`, `NamespaceFiltersContain` and `LogsFiltersMatch` reduce the nesting of
`Or` and `And` to "the user named it, or it is an operator's, or there is nothing to filter
by". `IndInv` says that the archive has nothing but what the filters keep (`NothingElse`) and,
of every namespace whose step is over without an error, all of it (`AllThere`); while the
operators are looked at, and the filters still change, there is nothing (`Places`). Each
property then compares two filters on one object, or one filter on two objects. Proved: a
theorem for each property of the run. `OwnedPodsAreLogged` is about the types that own Pods; a
stack config policy owns none and has no log selector. TLC checked `IndInv` on the instance of
`run`.

**`OperatorProofs`.** The assumptions are `Installable` and `FallbackIsMax`. Three lemmas
are about the pure functions: what is read from a workload is not older than what it runs
(`VersionIsHighEnough`), and flags and variables (`LocalIsRight`) or the config file
(`FileIsRight`, which rests on `KeyIsRight`: of the keys of a ConfigMap the process sees the one
that the code arrives at and no other) yield a description that covers every managed namespace (`Covered`).
`IndInv` says that this holds of every operator in `infos` at any time, also of one that is
still being looked at (`InfosInv`): everything is assumed of it first, so a request that
fails leaves something that covers it, and each request replaces this by something that
covers it, too. While a ConfigMap is asked for, `work` is the workload it belongs to
(`FileInv`), and the operators that the last loop is past have their messages (`SaidInv`).
Proved: `TypeCorrect`, `NothingIsMissed` and `VersionsAreCovered`.

**Only model-checked.** The liveness properties (`ReturnsUnlessStranded`, `Returns`, `Ends`),
on the instances above: they rest on fairness, that is on `ENABLED`, which the prover cannot
reason about. Every invariant and both refinements of the runs are proved; `LastDeletionWakesUp`
where the four faults are absent, `SupportedIsScheduled` where there is no Logstash, since
runs show them not to hold, or the call not to end, otherwise. The inductive invariant of `StackDiag` is also an invariant of the run `stack_faults`.

## Not modelled, and plan

Not modelled because there is nothing to interleave or to fail in a way that the
properties tell apart: validation of flags, the Pod template's text, printing of
objects, `Describe`, the redaction of Secret data, parsing of selectors. Lists that
are collected without a filter are left out of `DiagRun`, and so are the
cluster-wide files. `DiagRun` keeps sets, and so does not see that two operators
with the same label have their logs written twice.

Of operator detection, only the serialisation of the result is left out, and that an operator
namespace may be given twice.

What could follow:

1. `StackDiag` with a job's timer already running while `ScheduleJobs` goes on with the next
   resource, request by request.
2. `Operator` and `DiagRun` in one module: today `DiagRun` chooses a version per operator,
   and `Operator` says which one.
