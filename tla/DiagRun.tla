------------------------------ MODULE DiagRun ------------------------------
(***************************************************************************)
(* Run (internal/diag.go): the operators, the filters, the loop over the   *)
(* namespaces and the end of the archive; with what GetByLabel, GetByName, *)
(* Logs (internal/kubectl.go), the stack and the agent diagnostics take    *)
(* from the filters. How the diagnostics themselves go is in StackDiag and *)
(* AgentDiag.                                                              *)
(***************************************************************************)
EXTENDS Naturals, FiniteSets

CONSTANTS
  Objects,            \* records [ns, kind, name, labels]: what there is in the namespaces
  OperatorNamespaces, \* --operator-namespaces
  ResourcesNamespaces,\* --resources-namespaces
  OperatorLabels,     \* of each operator namespace: the selector of its operator's objects
  TypeFilterChoices,  \* values of --filters: maps of types to names
  LogFilterChoices,   \* values of --log-selectors: sets of selectors
  Versions,           \* versions an operator may be found to have
  FallbackVersion     \* fallbackMaxVersion, above all others

Namespaces == OperatorNamespaces \cup ResourcesNamespaces

INSTANCE Filters WITH LabelSets <- {o.labels : o \in Objects},
                      Names <- {o.name : o \in Objects}

\* An object has one value for a key, and parse refuses types it does not know.
ASSUME LabelsAreMaps ==
  \A o \in Objects : \A a, b \in o.labels : a[1] = b[1] /\ a[2] = b[2] => a = b
ASSUME FiltersAreParsed ==
  \A f \in TypeFilterChoices : f \in [DOMAIN f -> STRING] /\ DOMAIN f \subseteq ValidTypes

VARIABLES
  pc,           \* where Run is
  filterArg,    \* params.Filters, before it is parsed
  logArg,       \* params.LogFilters, before it is parsed
  operatorTodo, \* operator namespaces not looked at
  labelsFound,  \* operatorLabels
  version,      \* the maximum of operatorVersions, 0 while there is none
  todo,         \* namespaces the loop has not come to
  ns,           \* the namespace it is at
  collected,    \* objects in the archive's resource files
  logged,       \* Pods whose logs are in the archive
  diagnosed,    \* resources and agent Pods that diagnostics were run for
  failed,       \* namespaces an error in the archive is about
  interrupted   \* the context is done

argVars    == <<filterArg, logArg>>
opVars     == <<operatorTodo, labelsFound, version>>
loopVars   == <<todo, ns>>
resultVars == <<collected, logged, diagnosed, failed>>
vars == <<pc, argVars, opVars, loopVars, resultVars, interrupted>>

None == "none"
Goto(p) == pc' = p

(***************************************************************************)
(* The filters that Run makes of its parameters and the operator labels.   *)
(***************************************************************************)
operatorFilters  == LabelFilter(labelsFound)
userFilters      == TypeFilters(filterArg)
namespaceFilters == Or({userFilters, operatorFilters})

\* Mistake: log selectors alone decide on the operators' logs.
logsFiltersOnly == And({NewLabelFilter(logArg), namespaceFilters})

\* The operator filters are in both, or the conjunction would lose their logs.
logsFilters == And({Or({NewLabelFilter(logArg), operatorFilters}), namespaceFilters})

\* Mistake: a type that came later is not in the list.
logsLabelsOld == {{TypeLabel(c)} : c \in {"elasticsearch", "kibana", "apm-server", "enterprise-search",
                     "beat", "agent", "maps", "logstash"}} \cup labelsFound

\* The selectors that getLogs is called with.
logsLabels == {{TypeLabel(c)} : c \in {"elasticsearch", "kibana", "apm-server", "enterprise-search",
                  "beat", "agent", "maps", "logstash", "autoops-agent", "package-registry"}}
              \cup labelsFound

(***************************************************************************)
(* Kinds of objects: those collected by label, which Pods stand for, and   *)
(* the custom resources, with the version that introduced them.            *)
(***************************************************************************)
MinVersion == [kibana |-> 0, elasticsearch |-> 0, apmserver |-> 0, enterprisesearch |-> 120,
               beat |-> 120, agent |-> 140, elasticmapsserver |-> 160, logstash |-> 280,
               autoopsagentpolicy |-> 330, packageregistry |-> 330, stackconfigpolicy |-> 260]
CRDs == DOMAIN MinVersion
Requested(kind) == kind \in CRDs /\ MinVersion[kind] <= version

StackTypes == {"elasticsearch", "kibana"} \cup (IF version >= 280 THEN {"logstash"} ELSE {})

Here(k) == {o \in Objects : o.ns = ns /\ o.kind = k}

\* Mistake: the name of the CRD is taken for the filter type.
NamedByKind(f, o) == o.kind \in ValidTypes /\ f.Contains[<<o.name, o.kind>>]

NamedBy(f, o) == f.Contains[<<o.name, FilterTypeFromCRDName(o.kind)>>]

\* getFiltered skips the filter when it is empty.
GetByLabel(f) == {o \in Here("pod") : f.Empty \/ f.Matches[o.labels]}
GetByName(f)  == {o \in UNION {Here(k) : k \in {c \in CRDs : Requested(c)}} : f.Empty \/ NamedBy(f, o)}
Logs(f)       == {o \in Here("pod") : /\ \E s \in logsLabels : SelectorMatches(s, o.labels)
                                      /\ f.Matches[o.labels]}
AgentJobs(f)  == {o \in Here("pod") : SelectorMatches({TypeLabel("agent")}, o.labels)
                                      /\ f.Matches[o.labels]}

\* Mistake: stack diagnostics do not look at the filters.
StackJobsAll(f) == UNION {Here(k) : k \in StackTypes}

StackJobs(f)  == {o \in UNION {Here(k) : k \in StackTypes} : f.Empty \/ f.Contains[<<o.name, o.kind>>]}

Init ==
  /\ pc = "operators"
  /\ filterArg \in TypeFilterChoices
  /\ logArg \in LogFilterChoices
  /\ operatorTodo = OperatorNamespaces
  /\ labelsFound = {}
  /\ version = 0
  /\ todo = Namespaces
  /\ ns = None
  /\ collected = {} /\ logged = {} /\ diagnosed = {} /\ failed = {}
  /\ interrupted = FALSE

-----------------------------------------------------------------------------
\* Mistake: what getOperatorLabel returns is used though it found no label.
LookAtOperatorAnyLabel(n) ==
  /\ pc = "operators" /\ n \in operatorTodo
  /\ operatorTodo' = operatorTodo \ {n}
  /\ labelsFound' \in {labelsFound \cup {{}}, labelsFound \cup {OperatorLabels[n]}}
  /\ \E v \in Versions \cup {FallbackVersion} : version' = IF v > version THEN v ELSE version
  /\ UNCHANGED <<pc, argVars, loopVars, resultVars, interrupted>>

\* getOperatorLabel finds the label or not; detectOperatorInfo returns a version,
\* the fallback when it does not know. The maximum counts.
LookAtOperator(n) ==
  /\ pc = "operators" /\ n \in operatorTodo
  /\ operatorTodo' = operatorTodo \ {n}
  /\ labelsFound' \in {labelsFound, labelsFound \cup {OperatorLabels[n]}}
  /\ \E v \in Versions \cup {FallbackVersion} : version' = IF v > version THEN v ELSE version
  /\ UNCHANGED <<pc, argVars, loopVars, resultVars, interrupted>>

BeginLoop ==
  /\ pc = "operators" /\ operatorTodo = {}
  /\ version' = IF OperatorNamespaces = {} THEN FallbackVersion ELSE version
  /\ Goto("loop")
  /\ UNCHANGED <<argVars, operatorTodo, labelsFound, loopVars, resultVars, interrupted>>

NextNamespace(n) ==
  /\ pc = "loop" /\ n \in todo /\ ~interrupted
  /\ ns' = n
  /\ todo' = todo \ {n}
  /\ Goto("labelled")
  /\ UNCHANGED <<argVars, opVars, resultVars, interrupted>>

\* What is left of a step that fails somewhere. Bound: everything or nothing of what
\* it wanted; the properties only ask whether such a namespace has too much.
Cut(wanted) == {{}, wanted}

\* A list that fails leaves an error instead of its objects.
Collect(from, next, wanted) ==
  /\ pc = from
  /\ \/ collected' = collected \cup wanted /\ UNCHANGED failed
     \/ \E got \in Cut(wanted) : collected' = collected \cup got /\ failed' = failed \cup {ns}
  /\ Goto(next)
  /\ UNCHANGED <<argVars, opVars, loopVars, logged, diagnosed, interrupted>>

CollectByLabel == Collect("labelled", "named", GetByLabel(namespaceFilters))
CollectByName  == Collect("named", "logs", GetByName(namespaceFilters))

\* The first Pod whose logs cannot be had ends the Logs of a selector.
CollectLogs ==
  LET wanted == Logs(logsFilters) IN
  /\ pc = "logs"
  /\ \/ logged' = logged \cup wanted /\ UNCHANGED failed
     \/ \E got \in Cut(wanted) : logged' = logged \cup got /\ failed' = failed \cup {ns}
  /\ Goto("stack")
  /\ UNCHANGED <<argVars, opVars, loopVars, collected, diagnosed, interrupted>>

\* Which diagnostics are tried; a listing that fails, or an interrupt, cuts them
\* short. Either may be switched off.
Diagnose(from, next, wanted) ==
  /\ pc = from
  /\ \/ diagnosed' = diagnosed \cup wanted /\ UNCHANGED failed
     \/ \E got \in Cut(wanted) : diagnosed' = diagnosed \cup got /\ failed' = failed \cup {ns}
  /\ Goto(next)
  /\ UNCHANGED <<argVars, opVars, loopVars, collected, logged, interrupted>>

StackDiagnostics == Diagnose("stack", "agents", StackJobs(namespaceFilters))
AgentDiagnostics == Diagnose("agents", "loop", AgentJobs(namespaceFilters))

\* A namespace that was begun is gone through to its end.
EndLoop ==
  /\ pc = "loop"
  /\ todo = {} \/ interrupted
  /\ Goto("close")
  /\ UNCHANGED <<argVars, opVars, loopVars, resultVars, interrupted>>

\* The log, the manifest and the errors are added, and the archive closed.
Close ==
  /\ pc = "close"
  /\ Goto("closed")
  /\ UNCHANGED <<argVars, opVars, loopVars, resultVars, interrupted>>

Interrupt ==
  /\ ~interrupted
  /\ interrupted' = TRUE
  /\ UNCHANGED <<pc, argVars, opVars, loopVars, resultVars>>

Closed == pc = "closed" /\ UNCHANGED vars

-----------------------------------------------------------------------------
RunStep ==
  \/ \E n \in OperatorNamespaces : LookAtOperator(n)
  \/ BeginLoop
  \/ \E n \in Namespaces : NextNamespace(n)
  \/ CollectByLabel \/ CollectByName \/ CollectLogs
  \/ StackDiagnostics \/ AgentDiagnostics
  \/ EndLoop \/ Close

Next == RunStep \/ Interrupt \/ Closed

Spec == Init /\ [][Next]_vars

-----------------------------------------------------------------------------
(***************************************************************************)
(* Properties.                                                             *)
(***************************************************************************)
TypeOK ==
  /\ pc \in {"operators", "loop", "labelled", "named", "logs", "stack", "agents", "close", "closed"}
  /\ filterArg \in TypeFilterChoices /\ logArg \in LogFilterChoices
  /\ operatorTodo \subseteq OperatorNamespaces
  /\ labelsFound \subseteq {OperatorLabels[n] : n \in OperatorNamespaces}
  /\ version \in Versions \cup {0, FallbackVersion}
  /\ todo \subseteq Namespaces /\ ns \in Namespaces \cup {None}
  /\ collected \cup logged \cup diagnosed \subseteq Objects
  /\ failed \subseteq Namespaces
  /\ interrupted \in BOOLEAN

\* An operator's object, as far as its label was found.
OfOperator(o) == \E l \in labelsFound : SelectorMatches(l, o.labels)

\* An object of a resource that --filters names, by its labels or as the resource.
Belongs(o) ==
  \E t \in DOMAIN filterArg :
    \/ o.kind = "pod" /\ SelectorMatches(buildSelectorForTypeFilter(t, filterArg[t]), o.labels)
    \/ o.kind = crdName(t) /\ o.name = filterArg[t]

\* Namespaces that the loop is through with, without an error.
Clean(n) == /\ n \in Namespaces \ (todo \cup failed) /\ pc # "operators"
            /\ n = ns => pc \in {"loop", "close", "closed"}

\* "Always collect operator information even in the presence of filters": the Pods
\* of an operator whose label was found are collected, and their logs, whatever
\* type filters and log selectors there are.
OperatorIsKept ==
  \A o \in Objects : o.kind = "pod" /\ OfOperator(o) /\ Clean(o.ns) => o \in collected \cap logged

\* With type filters, nothing but the operators' objects and what belongs to a
\* resource named there is collected, logged or diagnosed. The README says so.
OnlyNamedCollected ==
  filterArg # <<>> =>
    \A o \in collected \cup logged \cup diagnosed : Belongs(o) \/ OfOperator(o)

\* What the code keeps of it: the type filters hold once an operator label was found.
TypeFiltersHold == labelsFound # {} => OnlyNamedCollected

\* A custom resource and its Pods are collected together or not at all: filtering
\* by name and by label agree, through the names of the CRDs and of the labels.
PodsFollowResource ==
  \A c, p \in Objects :
    /\ Requested(c.kind) /\ p.kind = "pod" /\ c.ns = p.ns /\ Clean(c.ns) /\ ~OfOperator(p)
    /\ SelectorMatches(buildSelectorForTypeFilter(FilterTypeFromCRDName(c.kind), c.name), p.labels)
    => (c \in collected <=> p \in collected)

\* Diagnostics are run only for what the archive also describes.
DiagnosedIsCollected ==
  \A o \in diagnosed : Clean(o.ns) /\ (o.kind \in CRDs => Requested(o.kind)) => o \in collected

\* Without log selectors the logs of every collected Pod that Elastic's resources
\* own are there too. A policy owns none.
PodTypes == ValidTypes \ {"stackconfigpolicy"}

OwnedPodsAreLogged ==
  logArg = {} =>
    \A o \in collected :
      o.kind = "pod" /\ Clean(o.ns) /\ (\E t \in PodTypes : TypeLabel(commonType(t)) \in o.labels)
      => o \in logged
=============================================================================
