--------------------------- MODULE DiagRunProofs ---------------------------
(***************************************************************************)
(* Proofs about DiagRun, for any objects, operators, filters and versions, *)
(* and whatever requests fail.                                             *)
(***************************************************************************)
EXTENDS DiagRun, TLAPS

-----------------------------------------------------------------------------
(***************************************************************************)
(* The table of resource types.                                            *)
(***************************************************************************)

\* No two types share a custom resource or a value of the type label.
LEMMA TypesDiffer ==
  \A s, t \in ValidTypes : /\ crdName(s) = crdName(t) => s = t
                           /\ commonType(s) = commonType(t) => s = t
BY DEF ValidTypes, crdName, commonType

\* Every custom resource that Run collects is in the table, under one type.
LEMMA CRDHasType ==
  ASSUME NEW c \in CRDs
  PROVE  FilterTypeFromCRDName(c) \in ValidTypes /\ crdName(FilterTypeFromCRDName(c)) = c
<1>1. \E t \in ValidTypes : crdName(t) = c
  BY DEF CRDs, MinVersion, ValidTypes, crdName
<1> DEFINE T == CHOOSE t \in ValidTypes : crdName(t) = c
<1>2. T \in ValidTypes /\ crdName(T) = c
  BY <1>1
<1>3. FilterTypeFromCRDName(c) = T
  BY <1>1 DEF FilterTypeFromCRDName
<1> QED
  BY <1>2, <1>3

\* Those with stack diagnostics are called the same everywhere.
LEMMA StackTypeIsType ==
  ASSUME NEW t \in StackTypes
  PROVE  t \in ValidTypes /\ t \in CRDs /\ crdName(t) = t /\ FilterTypeFromCRDName(t) = t
<1>1. t \in ValidTypes /\ t \in CRDs /\ crdName(t) = t
  BY DEF StackTypes, ValidTypes, CRDs, MinVersion, crdName
<1> QED
  BY <1>1, CRDHasType, TypesDiffer

\* Labels that satisfy the selectors of two named resources are those of one.
LEMMA SelectorNamesOne ==
  ASSUME NEW o \in Objects, NEW s \in ValidTypes, NEW t \in ValidTypes, NEW m, NEW n,
         SelectorMatches(buildSelectorForTypeFilter(s, m), o.labels),
         SelectorMatches(buildSelectorForTypeFilter(t, n), o.labels)
  PROVE  s = t /\ m = n
<1>1. /\ TypeLabel(commonType(s)) \in o.labels /\ TypeLabel(commonType(t)) \in o.labels
      /\ <<labelPrefix(s), nameAttr(s), m>> \in o.labels
      /\ <<labelPrefix(t), nameAttr(t), n>> \in o.labels
  BY DEF SelectorMatches, buildSelectorForTypeFilter
<1>2. commonType(s) = commonType(t)
  BY <1>1, LabelsAreMaps DEF TypeLabel
<1>3. s = t
  BY <1>2, TypesDiffer
<1>4. m = n
  BY <1>1, <1>3, LabelsAreMaps
<1> QED
  BY <1>3, <1>4

-----------------------------------------------------------------------------
(***************************************************************************)
(* The filters that Run combines.                                          *)
(***************************************************************************)

\* An object that the user named by its labels.
NamedByLabels(o) ==
  \E t \in DOMAIN filterArg : SelectorMatches(buildSelectorForTypeFilter(t, filterArg[t]), o.labels)

Everything == DOMAIN filterArg = {} \/ labelsFound = {}

LEMMA NamespaceFiltersEmpty == namespaceFilters.Empty <=> Everything
<1>1. userFilters.Empty <=> DOMAIN filterArg = {}
  BY DEF userFilters, TypeFilters
<1>2. operatorFilters.Empty <=> labelsFound = {}
  BY DEF operatorFilters, LabelFilter
<1>3. namespaceFilters.Empty <=> userFilters.Empty \/ operatorFilters.Empty
  BY DEF namespaceFilters, Or
<1> QED
  BY <1>1, <1>2, <1>3 DEF Everything

LEMMA NamespaceFiltersMatch ==
  ASSUME NEW o \in Objects
  PROVE  namespaceFilters.Matches[o.labels] <=> Everything \/ NamedByLabels(o) \/ OfOperator(o)
<1> DEFINE L == {x.labels : x \in Objects}
<1>1. o.labels \in L
  OBVIOUS
<1>2. userFilters.Matches[o.labels] <=> DOMAIN filterArg = {} \/ NamedByLabels(o)
  BY <1>1 DEF userFilters, TypeFilters, NamedByLabels
<1>3. operatorFilters.Matches[o.labels] <=> labelsFound = {} \/ OfOperator(o)
  BY <1>1 DEF operatorFilters, LabelFilter, OfOperator
<1>4. namespaceFilters.Matches[o.labels] <=>
        namespaceFilters.Empty \/ userFilters.Matches[o.labels] \/ operatorFilters.Matches[o.labels]
  BY <1>1 DEF namespaceFilters, Or
<1> QED
  BY <1>2, <1>3, <1>4, NamespaceFiltersEmpty DEF Everything

LEMMA NamespaceFiltersContain ==
  ASSUME NEW o \in Objects, NEW t \in ValidTypes
  PROVE  namespaceFilters.Contains[<<o.name, t>>] <=>
           Everything \/ (t \in DOMAIN filterArg /\ filterArg[t] = o.name)
<1> DEFINE N == {x.name : x \in Objects} \X ValidTypes
<1>1. <<o.name, t>> \in N
  OBVIOUS
<1>2. userFilters.Contains[<<o.name, t>>] <=>
        DOMAIN filterArg = {} \/ (t \in DOMAIN filterArg /\ filterArg[t] = o.name)
  BY <1>1 DEF userFilters, TypeFilters, NamedTypes
<1>3. ~operatorFilters.Contains[<<o.name, t>>]
  BY <1>1 DEF operatorFilters, LabelFilter, NamedTypes
<1>4. namespaceFilters.Contains[<<o.name, t>>] <=>
        \/ namespaceFilters.Empty
        \/ userFilters.Contains[<<o.name, t>>] \/ operatorFilters.Contains[<<o.name, t>>]
  BY <1>1 DEF namespaceFilters, Or, NamedTypes
<1> QED
  BY <1>2, <1>3, <1>4, NamespaceFiltersEmpty DEF Everything

\* The logs of an operator pass, and without log selectors all that is collected.
LEMMA LogsFiltersMatch ==
  ASSUME NEW o \in Objects
  PROVE  /\ logsFilters.Matches[o.labels] => namespaceFilters.Matches[o.labels]
         /\ OfOperator(o) => logsFilters.Matches[o.labels]
         /\ logArg = {} /\ namespaceFilters.Matches[o.labels] => logsFilters.Matches[o.labels]
<1> DEFINE L == {x.labels : x \in Objects}
<1> DEFINE logs == Or({NewLabelFilter(logArg), operatorFilters})
<1>1. o.labels \in L
  OBVIOUS
<1>2. logsFilters.Matches[o.labels] <=> logs.Matches[o.labels] /\ namespaceFilters.Matches[o.labels]
  BY <1>1 DEF logsFilters, And
<1>3. OfOperator(o) => operatorFilters.Matches[o.labels]
  BY <1>1 DEF operatorFilters, LabelFilter, OfOperator
<1>4. operatorFilters.Matches[o.labels] => logs.Matches[o.labels]
  BY <1>1 DEF Or
<1>5. logArg = {} => logs.Matches[o.labels]
  <2>1. DOMAIN <<>> = {}
    OBVIOUS
  <2>2. logArg = {} => NewLabelFilter(logArg).Empty
    BY <2>1 DEF NewLabelFilter, EmptyFilter, TypeFilters
  <2> QED
    BY <1>1, <2>2 DEF Or
<1> QED
  BY <1>2, <1>3, <1>4, <1>5, NamespaceFiltersMatch

-----------------------------------------------------------------------------
(***************************************************************************)
(* What the filters keep of one object, and the invariant.                 *)
(***************************************************************************)
PodKept(o)   == o.kind = "pod" /\ (namespaceFilters.Empty \/ namespaceFilters.Matches[o.labels])
NameKept(o)  == Requested(o.kind) /\ (namespaceFilters.Empty \/ NamedBy(namespaceFilters, o))
LogKept(o)   == /\ o.kind = "pod" /\ logsFilters.Matches[o.labels]
                /\ \E s \in logsLabels : SelectorMatches(s, o.labels)
StackKept(o) == /\ o.kind \in StackTypes
                /\ namespaceFilters.Empty \/ namespaceFilters.Contains[<<o.name, o.kind>>]
AgentKept(o) == /\ o.kind = "pod" /\ namespaceFilters.Matches[o.labels]
                /\ SelectorMatches({TypeLabel("agent")}, o.labels)

Within == {"labelled", "named", "logs", "stack", "agents"}
Between == {"loop", "close", "closed"}

\* A namespace, without an error so far, that is past the steps before those of
\* places.
Passed(n, places) ==
  n \in Namespaces \ (todo \cup failed) /\ pc # "operators" /\ (n = ns => pc \in places)

\* Nothing is collected before the filters are made.
Places ==
  /\ TypeOK
  /\ pc \in Within => ns \in Namespaces \ todo
  /\ pc = "operators" => todo = Namespaces /\ collected = {} /\ logged = {} /\ diagnosed = {}

\* There is nothing but what the filters keep.
NothingElse ==
  /\ \A o \in collected : PodKept(o) \/ NameKept(o)
  /\ \A o \in logged : LogKept(o)
  /\ \A o \in diagnosed : StackKept(o) \/ AgentKept(o)

\* What the filters keep is there when its step is over without an error.
AllThere ==
  \A o \in Objects :
    /\ PodKept(o) /\ Passed(o.ns, Between \cup {"named", "logs", "stack", "agents"}) => o \in collected
    /\ NameKept(o) /\ Passed(o.ns, Between \cup {"logs", "stack", "agents"}) => o \in collected
    /\ LogKept(o) /\ Passed(o.ns, Between \cup {"stack", "agents"}) => o \in logged

IndInv == Places /\ NothingElse /\ AllThere

\* Once the loop has begun the filters stay.
LEMMA FiltersStay ==
  ASSUME UNCHANGED <<argVars, labelsFound, version>>
  PROVE  \A o : /\ PodKept(o)' <=> PodKept(o)
                /\ NameKept(o)' <=> NameKept(o)
                /\ LogKept(o)' <=> LogKept(o)
                /\ StackKept(o)' <=> StackKept(o)
                /\ AgentKept(o)' <=> AgentKept(o)
<1>1. UNCHANGED <<filterArg, logArg, labelsFound, version>>
  BY DEF argVars
<1>2. namespaceFilters' = namespaceFilters /\ logsFilters' = logsFilters
  BY <1>1 DEF namespaceFilters, logsFilters, userFilters, operatorFilters
<1>3. logsLabels' = logsLabels /\ StackTypes' = StackTypes /\ \A k : Requested(k)' <=> Requested(k)
  BY <1>1 DEF logsLabels, StackTypes, Requested
<1> QED
  BY <1>2, <1>3 DEF PodKept, NameKept, NamedBy, LogKept, StackKept, AgentKept

LEMMA InitHolds == Init => IndInv
<1> SUFFICES ASSUME Init PROVE IndInv
  OBVIOUS
<1>1. TypeOK
  BY DEF Init, TypeOK
<1>2. Places /\ NothingElse
  BY <1>1 DEF Init, Places, NothingElse, Within
<1>3. AllThere
  BY DEF Init, AllThere, Passed
<1> QED
  BY <1>2, <1>3 DEF IndInv

LEMMA StepTypeOK ==
  ASSUME Places, Next
  PROVE  TypeOK'
<1> USE DEF Places, TypeOK, argVars, opVars, loopVars, resultVars, Goto, Within
<1>1. ASSUME NEW n \in OperatorNamespaces, LookAtOperator(n) PROVE TypeOK'
  BY <1>1 DEF LookAtOperator
<1>2. CASE BeginLoop
  BY <1>2 DEF BeginLoop
<1>3. ASSUME NEW n \in Namespaces, NextNamespace(n) PROVE TypeOK'
  BY <1>3 DEF NextNamespace
<1>4. CASE CollectByLabel
  <2>1. GetByLabel(namespaceFilters) \subseteq Objects
    BY DEF GetByLabel, Here
  <2> QED
    BY <1>4, <2>1 DEF CollectByLabel, Collect, Cut
<1>5. CASE CollectByName
  <2>1. GetByName(namespaceFilters) \subseteq Objects
    BY DEF GetByName, Here
  <2> QED
    BY <1>5, <2>1 DEF CollectByName, Collect, Cut
<1>6. CASE CollectLogs
  <2>1. Logs(logsFilters) \subseteq Objects
    BY DEF Logs, Here
  <2> QED
    BY <1>6, <2>1 DEF CollectLogs, Cut
<1>7. CASE StackDiagnostics
  <2>1. StackJobs(namespaceFilters) \subseteq Objects
    BY DEF StackJobs, Here
  <2> QED
    BY <1>7, <2>1 DEF StackDiagnostics, Diagnose, Cut
<1>8. CASE AgentDiagnostics
  <2>1. AgentJobs(namespaceFilters) \subseteq Objects
    BY DEF AgentJobs, Here
  <2> QED
    BY <1>8, <2>1 DEF AgentDiagnostics, Diagnose, Cut
<1>9. CASE EndLoop \/ Close \/ Interrupt
  BY <1>9 DEF EndLoop, Close, Interrupt
<1>10. CASE Closed
  BY <1>10 DEF Closed, vars
<1> QED
  BY <1>1, <1>2, <1>3, <1>4, <1>5, <1>6, <1>7, <1>8, <1>9, <1>10 DEF Next, RunStep

\* While the operators are looked at nothing is collected, so the filters may change.
LEMMA OperatorsKeep ==
  ASSUME IndInv, BeginLoop \/ \E n \in OperatorNamespaces : LookAtOperator(n)
  PROVE  IndInv'
<1> USE DEF argVars, opVars, loopVars, resultVars, Goto
<1>1. /\ pc = "operators" /\ pc' \in {"operators", "loop"}
      /\ UNCHANGED <<todo, ns, collected, logged, diagnosed, failed>>
  BY DEF BeginLoop, LookAtOperator
<1>2. todo' = Namespaces /\ collected' = {} /\ logged' = {} /\ diagnosed' = {}
  BY <1>1 DEF IndInv, Places
<1>3. TypeOK'
  BY StepTypeOK DEF IndInv, Next, RunStep
<1>4. Places' /\ NothingElse'
  BY <1>1, <1>2, <1>3 DEF Places, NothingElse, Within
<1>5. AllThere'
  BY <1>2 DEF AllThere, Passed
<1> QED
  BY <1>4, <1>5 DEF IndInv

\* Steps that collect nothing.
LEMMA LoopKeeps ==
  ASSUME IndInv, EndLoop \/ Close \/ Interrupt \/ Closed \/ \E n \in Namespaces : NextNamespace(n)
  PROVE  IndInv'
<1> USE DEF argVars, opVars, loopVars, resultVars, Goto, vars
<1>1. UNCHANGED <<argVars, labelsFound, version, collected, logged, diagnosed, failed>>
  BY DEF EndLoop, Close, Interrupt, Closed, NextNamespace
<1>2. TypeOK'
  BY StepTypeOK DEF IndInv, Next, RunStep
<1>3. Places'
  BY <1>1, <1>2 DEF IndInv, Places, TypeOK, Within, EndLoop, Close, Interrupt, Closed, NextNamespace
<1>4. NothingElse'
  BY <1>1, FiltersStay DEF IndInv, NothingElse
<1>5. ASSUME NEW n, NEW places, Between \subseteq places, "labelled" \notin places,
             "operators" \notin places, Passed(n, places)'
      PROVE  Passed(n, places)
  BY <1>5 DEF IndInv, Places, Passed, Between, EndLoop, Close, Interrupt, Closed, NextNamespace
<1>6. AllThere'
  <2> SUFFICES ASSUME NEW o \in Objects
               PROVE  /\ PodKept(o) /\ Passed(o.ns, Between \cup {"named", "logs", "stack", "agents"})'
                           => o \in collected
                      /\ NameKept(o) /\ Passed(o.ns, Between \cup {"logs", "stack", "agents"})'
                           => o \in collected
                      /\ LogKept(o) /\ Passed(o.ns, Between \cup {"stack", "agents"})' => o \in logged
    BY <1>1, FiltersStay DEF AllThere
  <2> QED
    BY <1>5 DEF IndInv, AllThere, Between
<1> QED
  BY <1>3, <1>4, <1>6 DEF IndInv

\* A namespace that a step finds gone through was so before, unless the step is
\* the last of those that count.
LEMMA PassedBefore ==
  ASSUME UNCHANGED loopVars, failed \subseteq failed', pc # "operators",
         NEW n, NEW places, Passed(n, places)', n # ns \/ pc \in places
  PROVE  Passed(n, places)
BY DEF Passed, loopVars

LEMMA CollectByLabelKeeps == IndInv /\ CollectByLabel => IndInv'
<1> SUFFICES ASSUME IndInv, CollectByLabel PROVE IndInv'
  OBVIOUS
<1> DEFINE wanted == GetByLabel(namespaceFilters)
<1>1. /\ pc = "labelled" /\ pc' = "named" /\ failed \subseteq failed' /\ collected \subseteq collected'
      /\ UNCHANGED <<argVars, opVars, loopVars, logged, diagnosed>>
  BY DEF CollectByLabel, Collect, Cut, Goto
<1>2. /\ collected' \subseteq collected \cup wanted
      /\ ns \in failed' \/ wanted \subseteq collected'
  BY DEF CollectByLabel, Collect, Cut
<1>3. UNCHANGED <<argVars, labelsFound, version, todo, ns>>
  BY <1>1 DEF opVars, loopVars
<1>4. Places'
  <2>1. TypeOK'
    BY StepTypeOK DEF IndInv, Next, RunStep
  <2> QED
    BY <1>1, <1>3, <2>1 DEF IndInv, Places, Within
<1>5. NothingElse'
  <2>1. \A o \in wanted : PodKept(o)
    BY DEF GetByLabel, Here, PodKept
  <2> QED
    BY <1>1, <1>2, <1>3, <2>1, FiltersStay DEF IndInv, NothingElse
<1>6. ASSUME NEW o \in Objects, PodKept(o), Passed(o.ns, Between \cup {"named", "logs", "stack", "agents"})'
      PROVE  o \in collected'
  <2>1. CASE o.ns = ns
    <3>1. o \in wanted
      BY <1>6, <2>1 DEF PodKept, GetByLabel, Here
    <3> QED
      BY <1>2, <1>3, <1>6, <2>1, <3>1 DEF Passed
  <2>2. CASE o.ns # ns
    BY <1>1, <1>6, <2>2, PassedBefore DEF IndInv, AllThere
  <2> QED
    BY <2>1, <2>2
<1>7. ASSUME NEW n, NEW places, "named" \notin places, Passed(n, places)'
      PROVE  Passed(n, places)
  <2>1. n # ns
    BY <1>1, <1>3, <1>7 DEF Passed
  <2> QED
    BY <1>1, <1>7, <2>1, PassedBefore
<1>8. AllThere'
  <2> SUFFICES ASSUME NEW o \in Objects
               PROVE  /\ NameKept(o) /\ Passed(o.ns, Between \cup {"logs", "stack", "agents"})'
                           => o \in collected'
                      /\ LogKept(o) /\ Passed(o.ns, Between \cup {"stack", "agents"})' => o \in logged'
    BY <1>3, <1>6, FiltersStay DEF AllThere
  <2> QED
    BY <1>1, <1>7 DEF IndInv, AllThere, Between
<1> QED
  BY <1>4, <1>5, <1>8 DEF IndInv

LEMMA CollectByNameKeeps == IndInv /\ CollectByName => IndInv'
<1> SUFFICES ASSUME IndInv, CollectByName PROVE IndInv'
  OBVIOUS
<1> DEFINE wanted == GetByName(namespaceFilters)
<1>1. /\ pc = "named" /\ pc' = "logs" /\ failed \subseteq failed' /\ collected \subseteq collected'
      /\ UNCHANGED <<argVars, opVars, loopVars, logged, diagnosed>>
  BY DEF CollectByName, Collect, Cut, Goto
<1>2. /\ collected' \subseteq collected \cup wanted
      /\ ns \in failed' \/ wanted \subseteq collected'
  BY DEF CollectByName, Collect, Cut
<1>3. UNCHANGED <<argVars, labelsFound, version, todo, ns>>
  BY <1>1 DEF opVars, loopVars
<1>4. Places'
  <2>1. TypeOK'
    BY StepTypeOK DEF IndInv, Next, RunStep
  <2> QED
    BY <1>1, <1>3, <2>1 DEF IndInv, Places, Within
<1>5. NothingElse'
  <2>1. \A o \in wanted : NameKept(o)
    BY DEF GetByName, Here, NameKept
  <2> QED
    BY <1>1, <1>2, <1>3, <2>1, FiltersStay DEF IndInv, NothingElse
<1>6. ASSUME NEW o \in Objects, NameKept(o), Passed(o.ns, Between \cup {"logs", "stack", "agents"})'
      PROVE  o \in collected'
  <2>1. CASE o.ns = ns
    <3>1. o \in wanted
      BY <1>6, <2>1 DEF NameKept, GetByName, Here, Requested
    <3> QED
      BY <1>2, <1>3, <1>6, <2>1, <3>1 DEF Passed
  <2>2. CASE o.ns # ns
    BY <1>1, <1>6, <2>2, PassedBefore DEF IndInv, AllThere
  <2> QED
    BY <2>1, <2>2
<1>7. ASSUME NEW n, NEW places, Passed(n, places)', "named" \in places \/ "logs" \notin places
      PROVE  Passed(n, places)
  <2>1. n # ns \/ pc \in places
    BY <1>1, <1>3, <1>7 DEF Passed
  <2> QED
    BY <1>1, <1>7, <2>1, PassedBefore
<1>8. AllThere'
  <2> SUFFICES ASSUME NEW o \in Objects
               PROVE  /\ PodKept(o) /\ Passed(o.ns, Between \cup {"named", "logs", "stack", "agents"})'
                           => o \in collected'
                      /\ LogKept(o) /\ Passed(o.ns, Between \cup {"stack", "agents"})' => o \in logged'
    BY <1>3, <1>6, FiltersStay DEF AllThere
  <2> QED
    BY <1>1, <1>7 DEF IndInv, AllThere, Between
<1> QED
  BY <1>4, <1>5, <1>8 DEF IndInv

LEMMA CollectLogsKeeps == IndInv /\ CollectLogs => IndInv'
<1> SUFFICES ASSUME IndInv, CollectLogs PROVE IndInv'
  OBVIOUS
<1> DEFINE wanted == Logs(logsFilters)
<1>1. /\ pc = "logs" /\ pc' = "stack" /\ failed \subseteq failed' /\ logged \subseteq logged'
      /\ UNCHANGED <<argVars, opVars, loopVars, collected, diagnosed>>
  BY DEF CollectLogs, Cut, Goto
<1>2. /\ logged' \subseteq logged \cup wanted
      /\ ns \in failed' \/ wanted \subseteq logged'
  BY DEF CollectLogs, Cut
<1>3. UNCHANGED <<argVars, labelsFound, version, todo, ns>>
  BY <1>1 DEF opVars, loopVars
<1>4. Places'
  <2>1. TypeOK'
    BY StepTypeOK DEF IndInv, Next, RunStep
  <2> QED
    BY <1>1, <1>3, <2>1 DEF IndInv, Places, Within
<1>5. NothingElse'
  <2>1. \A o \in wanted : LogKept(o)
    BY DEF Logs, Here, LogKept
  <2> QED
    BY <1>1, <1>2, <1>3, <2>1, FiltersStay DEF IndInv, NothingElse
<1>6. ASSUME NEW o \in Objects, LogKept(o), Passed(o.ns, Between \cup {"stack", "agents"})'
      PROVE  o \in logged'
  <2>1. CASE o.ns = ns
    <3>1. o \in wanted
      BY <1>6, <2>1 DEF LogKept, Logs, Here
    <3> QED
      BY <1>2, <1>3, <1>6, <2>1, <3>1 DEF Passed
  <2>2. CASE o.ns # ns
    BY <1>1, <1>6, <2>2, PassedBefore DEF IndInv, AllThere
  <2> QED
    BY <2>1, <2>2
<1>7. ASSUME NEW n, NEW places, Passed(n, places)', "logs" \in places
      PROVE  Passed(n, places)
  BY <1>1, <1>7, PassedBefore
<1>8. AllThere'
  <2> SUFFICES ASSUME NEW o \in Objects
               PROVE  /\ PodKept(o) /\ Passed(o.ns, Between \cup {"named", "logs", "stack", "agents"})'
                           => o \in collected'
                      /\ NameKept(o) /\ Passed(o.ns, Between \cup {"logs", "stack", "agents"})'
                           => o \in collected'
    BY <1>3, <1>6, FiltersStay DEF AllThere
  <2> QED
    BY <1>1, <1>7 DEF IndInv, AllThere
<1> QED
  BY <1>4, <1>5, <1>8 DEF IndInv

LEMMA DiagnosticsKeep == IndInv /\ (StackDiagnostics \/ AgentDiagnostics) => IndInv'
<1> SUFFICES ASSUME IndInv, StackDiagnostics \/ AgentDiagnostics PROVE IndInv'
  OBVIOUS
<1> DEFINE wanted == StackJobs(namespaceFilters) \cup AgentJobs(namespaceFilters)
<1>1. /\ \/ pc = "stack" /\ pc' = "agents"
         \/ pc = "agents" /\ pc' = "loop"
      /\ failed \subseteq failed' /\ diagnosed' \subseteq diagnosed \cup wanted
      /\ UNCHANGED <<argVars, opVars, loopVars, collected, logged>>
  BY DEF StackDiagnostics, AgentDiagnostics, Diagnose, Cut, Goto
<1>2. UNCHANGED <<argVars, labelsFound, version, todo, ns>>
  BY <1>1 DEF opVars, loopVars
<1>3. Places'
  <2>1. TypeOK'
    BY StepTypeOK DEF IndInv, Next, RunStep
  <2> QED
    BY <1>1, <1>2, <2>1 DEF IndInv, Places, Within
<1>4. NothingElse'
  <2>1. \A o \in wanted : StackKept(o) \/ AgentKept(o)
    BY DEF StackJobs, AgentJobs, Here, StackKept, AgentKept
  <2> QED
    BY <1>1, <1>2, <2>1, FiltersStay DEF IndInv, NothingElse
<1>5. ASSUME NEW n, NEW places, Passed(n, places)', {"stack", "agents"} \subseteq places
      PROVE  Passed(n, places)
  BY <1>1, <1>5, PassedBefore
<1>6. AllThere'
  <2> SUFFICES ASSUME NEW o \in Objects
               PROVE  /\ PodKept(o) /\ Passed(o.ns, Between \cup {"named", "logs", "stack", "agents"})'
                           => o \in collected
                      /\ NameKept(o) /\ Passed(o.ns, Between \cup {"logs", "stack", "agents"})'
                           => o \in collected
                      /\ LogKept(o) /\ Passed(o.ns, Between \cup {"stack", "agents"})' => o \in logged
    BY <1>1, <1>2, FiltersStay DEF AllThere
  <2> QED
    BY <1>5 DEF IndInv, AllThere
<1> QED
  BY <1>3, <1>4, <1>6 DEF IndInv

LEMMA StutterKeeps ==
  ASSUME IndInv, UNCHANGED vars
  PROVE  IndInv'
<1> USE DEF vars, resultVars, loopVars, opVars, argVars
<1>1. Places'
  BY DEF IndInv, Places, TypeOK
<1>2. NothingElse'
  BY FiltersStay DEF IndInv, NothingElse
<1>3. \A n, places : Passed(n, places)' <=> Passed(n, places)
  BY DEF Passed
<1>4. AllThere'
  BY <1>3, FiltersStay DEF IndInv, AllThere
<1> QED
  BY <1>1, <1>2, <1>4 DEF IndInv

LEMMA StepHolds == IndInv /\ [Next]_vars => IndInv'
BY OperatorsKeep, LoopKeeps, CollectByLabelKeeps, CollectByNameKeeps, CollectLogsKeeps,
   DiagnosticsKeep, StutterKeeps DEF Next, RunStep

LEMMA Invariance == Spec => []IndInv
<1>1. Init => IndInv
  BY InitHolds
<1>2. IndInv /\ [Next]_vars => IndInv'
  BY StepHolds
<1> QED
  BY <1>1, <1>2, PTL DEF Spec

-----------------------------------------------------------------------------
(***************************************************************************)
(* What follows from the invariant.                                        *)
(***************************************************************************)

\* Of a namespace the loop is through with, all that the filters keep is there.
LEMMA CleanHasAll ==
  ASSUME IndInv, NEW o \in Objects, Clean(o.ns)
  PROVE  /\ PodKept(o) \/ NameKept(o) => o \in collected
         /\ LogKept(o) => o \in logged
BY DEF IndInv, AllThere, Clean, Passed, Between

\* An object that is collected by its name is no Pod.
LEMMA PodsHaveNoCRD == ~Requested("pod")
BY DEF Requested, CRDs, MinVersion

LEMMA NameKeptAgrees ==
  ASSUME NEW o \in Objects, Requested(o.kind)
  PROVE  LET t == FilterTypeFromCRDName(o.kind)
         IN  NameKept(o) <=> Everything \/ (t \in DOMAIN filterArg /\ filterArg[t] = o.name)
<1>1. FilterTypeFromCRDName(o.kind) \in ValidTypes
  BY CRDHasType DEF Requested
<1> QED
  BY <1>1, NamespaceFiltersEmpty, NamespaceFiltersContain DEF NameKept, NamedBy

LEMMA PodKeptAgrees ==
  ASSUME NEW o \in Objects, o.kind = "pod"
  PROVE  PodKept(o) <=> Everything \/ NamedByLabels(o) \/ OfOperator(o)
BY NamespaceFiltersEmpty, NamespaceFiltersMatch DEF PodKept

\* Type filters that name no type are none.
LEMMA FiltersNameTypes ==
  ASSUME TypeOK
  PROVE  /\ DOMAIN filterArg \subseteq ValidTypes
         /\ filterArg # <<>> => DOMAIN filterArg # {}
<1>1. filterArg \in [DOMAIN filterArg -> STRING] /\ DOMAIN filterArg \subseteq ValidTypes
  BY FiltersAreParsed DEF TypeOK
<1>2. \A f \in [{} -> STRING] : f = <<>>
  OBVIOUS
<1>3. DOMAIN filterArg = {} => filterArg = <<>>
  BY <1>1, <1>2
<1> QED
  BY <1>1, <1>3

\* The state of Run stays in its type, and the archive holds nothing but objects of
\* the namespaces it was asked for.
THEOREM TypeCorrect == Spec => []TypeOK
<1>1. IndInv => TypeOK
  BY DEF IndInv, Places
<1> QED
  BY <1>1, Invariance, PTL

LEMMA InvOperatorIsKept == IndInv => OperatorIsKept
<1> SUFFICES ASSUME IndInv, NEW o \in Objects, o.kind = "pod", OfOperator(o), Clean(o.ns)
             PROVE  o \in collected \cap logged
  BY DEF OperatorIsKept
<1>1. PodKept(o)
  BY PodKeptAgrees
<1>2. \E s \in logsLabels : SelectorMatches(s, o.labels)
  BY DEF logsLabels, OfOperator
<1>3. LogKept(o)
  BY <1>2, LogsFiltersMatch DEF LogKept
<1> QED
  BY <1>1, <1>3, CleanHasAll

\* "Always collect operator information even in the presence of filters": no type
\* filter and no log selector takes a Pod of an operator whose label was found, or
\* its logs, from the archive (diag.go, the filters made before the loop).
THEOREM OperatorsAlwaysKept == Spec => []OperatorIsKept
BY InvOperatorIsKept, Invariance, PTL

LEMMA InvTypeFiltersHold == IndInv => TypeFiltersHold
<1> SUFFICES ASSUME IndInv, labelsFound # {}, filterArg # <<>>,
                    NEW o \in collected \cup logged \cup diagnosed
             PROVE  Belongs(o) \/ OfOperator(o)
  BY DEF TypeFiltersHold, OnlyNamedCollected
<1>1. TypeOK /\ o \in Objects
  BY DEF IndInv, Places, TypeOK
<1>2. ~Everything /\ ~namespaceFilters.Empty
  BY <1>1, FiltersNameTypes, NamespaceFiltersEmpty DEF Everything
<1>3. CASE o.kind = "pod" /\ namespaceFilters.Matches[o.labels]
  BY <1>1, <1>2, <1>3, NamespaceFiltersMatch DEF Belongs, NamedByLabels
<1>4. CASE NameKept(o)
  <2> DEFINE t == FilterTypeFromCRDName(o.kind)
  <2>1. o.kind \in CRDs /\ Requested(o.kind)
    BY <1>4 DEF NameKept, Requested
  <2>2. t \in DOMAIN filterArg /\ filterArg[t] = o.name
    BY <1>1, <1>2, <1>4, <2>1, NameKeptAgrees
  <2> QED
    BY <2>1, <2>2, CRDHasType DEF Belongs
<1>5. CASE StackKept(o)
  <2>1. o.kind \in StackTypes /\ namespaceFilters.Contains[<<o.name, o.kind>>]
    BY <1>2, <1>5 DEF StackKept
  <2>2. o.kind \in ValidTypes /\ crdName(o.kind) = o.kind
    BY <2>1, StackTypeIsType
  <2>3. o.kind \in DOMAIN filterArg /\ filterArg[o.kind] = o.name
    BY <1>1, <1>2, <2>1, <2>2, NamespaceFiltersContain
  <2> QED
    BY <2>2, <2>3 DEF Belongs
<1>6. LogKept(o) => o.kind = "pod" /\ namespaceFilters.Matches[o.labels]
  BY <1>1, LogsFiltersMatch DEF LogKept
<1> QED
  BY <1>2, <1>3, <1>4, <1>5, <1>6 DEF IndInv, NothingElse, PodKept, AgentKept

\* Once the label of an operator was found, type filters let nothing through but the
\* operators' Pods and what belongs to a resource they name (filters.Or, TypeFilters).
THEOREM FiltersLetNothingElse == Spec => []TypeFiltersHold
BY InvTypeFiltersHold, Invariance, PTL

LEMMA InvPodsFollowResource == IndInv => PodsFollowResource
<1> SUFFICES ASSUME IndInv, NEW c \in Objects, NEW p \in Objects,
                    Requested(c.kind), p.kind = "pod", c.ns = p.ns, Clean(c.ns), ~OfOperator(p),
                    SelectorMatches(buildSelectorForTypeFilter(FilterTypeFromCRDName(c.kind), c.name),
                                    p.labels)
             PROVE  c \in collected <=> p \in collected
  BY DEF PodsFollowResource
<1> DEFINE T == FilterTypeFromCRDName(c.kind)
<1>1. T \in ValidTypes
  BY CRDHasType DEF Requested
<1>2. DOMAIN filterArg \subseteq ValidTypes
  BY FiltersNameTypes DEF IndInv, Places
<1>3. NamedByLabels(p) <=> T \in DOMAIN filterArg /\ filterArg[T] = c.name
  <2>1. ASSUME NEW t \in DOMAIN filterArg,
               SelectorMatches(buildSelectorForTypeFilter(t, filterArg[t]), p.labels)
        PROVE  t = T /\ filterArg[t] = c.name
    BY <1>1, <1>2, <2>1, SelectorNamesOne
  <2> QED
    BY <2>1 DEF NamedByLabels
<1>4. NameKept(c) <=> PodKept(p)
  BY <1>3, NameKeptAgrees, PodKeptAgrees
<1>5. c \in collected <=> NameKept(c)
  BY CleanHasAll, PodsHaveNoCRD DEF IndInv, NothingElse, PodKept
<1>6. p \in collected <=> PodKept(p)
  BY CleanHasAll, PodsHaveNoCRD DEF IndInv, NothingElse, NameKept
<1> QED
  BY <1>4, <1>5, <1>6

\* The filters by name and by label agree: through the names of custom resources,
\* labels and types, a resource is collected exactly when its Pods are.
THEOREM ResourceAndPodsTogether == Spec => []PodsFollowResource
BY InvPodsFollowResource, Invariance, PTL

LEMMA InvDiagnosedIsCollected == IndInv => DiagnosedIsCollected
<1> SUFFICES ASSUME IndInv, NEW o \in diagnosed, Clean(o.ns), o.kind \in CRDs => Requested(o.kind)
             PROVE  o \in collected
  BY DEF DiagnosedIsCollected
<1>1. o \in Objects
  BY DEF IndInv, Places, TypeOK
<1>2. CASE StackKept(o)
  BY <1>2, StackTypeIsType, <1>1, CleanHasAll DEF StackKept, NameKept, NamedBy
<1>3. CASE AgentKept(o)
  BY <1>1, <1>3, CleanHasAll DEF AgentKept, PodKept
<1> QED
  BY <1>2, <1>3 DEF IndInv, NothingElse

\* What diagnostics are run for is described in the archive as well: the stack
\* diagnostics ask by the name of the type, the collection by that of the resource.
THEOREM DiagnosedAreCollected == Spec => []DiagnosedIsCollected
BY InvDiagnosedIsCollected, Invariance, PTL

LEMMA InvOwnedPodsAreLogged == IndInv => OwnedPodsAreLogged
<1> SUFFICES ASSUME IndInv, logArg = {}, NEW o \in collected, o.kind = "pod", Clean(o.ns),
                    NEW t \in PodTypes, TypeLabel(commonType(t)) \in o.labels
             PROVE  o \in logged
  BY DEF OwnedPodsAreLogged
<1>1. o \in Objects
  BY DEF IndInv, Places, TypeOK
<1>2. PodKept(o)
  BY PodsHaveNoCRD DEF IndInv, NothingElse, NameKept
<1>3. namespaceFilters.Matches[o.labels]
  BY <1>1, <1>2, NamespaceFiltersEmpty, NamespaceFiltersMatch DEF PodKept
<1>4. logsFilters.Matches[o.labels]
  BY <1>1, <1>3, LogsFiltersMatch
<1>5. {TypeLabel(commonType(t))} \in logsLabels
  <2>1. commonType(t) \in {"elasticsearch", "kibana", "apm-server", "enterprise-search", "beat",
                           "agent", "maps", "logstash", "autoops-agent", "package-registry"}
    BY DEF PodTypes, ValidTypes, commonType
  <2> QED
    BY <2>1 DEF logsLabels
<1>6. LogKept(o)
  BY <1>4, <1>5 DEF LogKept, SelectorMatches
<1> QED
  BY <1>1, <1>6, CleanHasAll

\* The list of type labels that Logs goes through leaves out no type that owns Pods:
\* without log selectors the logs of every collected Pod of Elastic's are there.
THEOREM CollectedPodsAreLogged == Spec => []OwnedPodsAreLogged
BY InvOwnedPodsAreLogged, Invariance, PTL
=============================================================================
