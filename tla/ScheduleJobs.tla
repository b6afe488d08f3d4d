---------------------------- MODULE ScheduleJobs ----------------------------
(***************************************************************************)
(* scheduleJobs and scheduleJob (internal/stackdiag.go) for every type of  *)
(* a namespace, with setupClientKeystore (internal/clientcert.go): the     *)
(* requests on the way from a listed resource to a registered job. Where   *)
(* StackDiag has one step Schedule(j), this module has all of them, and    *)
(* what the API server holds when one fails, or takes effect although its  *)
(* reply is lost. All of it runs in one goroutine, without the context     *)
(* that an interrupt cancels.                                              *)
(***************************************************************************)
EXTENDS Naturals, Sequences

CONSTANTS
  Elasticsearch, Kibana, Logstash,  \* the resources of the namespace, by type
  None                              \* not a resource

Resources == Elasticsearch \cup Kibana \cup Logstash

ASSUME NoneIsNoResource == None \notin Resources
ASSUME OneTypeEach == /\ Elasticsearch \cap Kibana = {}
                      /\ (Elasticsearch \cup Kibana) \cap Logstash = {}

VARIABLES
  pc,          \* where the goroutine is
  types,       \* the types that scheduleJobs has still to be called with
  listed,      \* resources listed that Visit has not come to
  cur,         \* the resource being visited
  esKnown,     \* esName is not empty
  mounts,      \* the resource's keystoreSecretName is not empty
  pod,         \* of each resource: its diagnostic Pod in the cluster,
  keystore,    \*   its keystore Secret; "stale" ones are an earlier run's
  registered,  \* resources with a job in state.jobs
  skipped,     \* resources the filters leave out
  reported,    \* resources an error in the archive is about
  fault        \* history, of each resource: what went wrong with it

loopVars    == <<types, listed, cur>>
localVars   == <<esKnown, mounts>>
clusterVars == <<pod, keystore>>
resultVars  == <<registered, skipped>>
errorVars   == <<reported, fault>>
vars == <<pc, loopVars, localVars, clusterVars, resultVars, errorVars>>

\* supportedStackDiagTypesFor, for an operator that is recent enough.
SupportedTypes == <<Elasticsearch, Kibana, Logstash>>

\* A request fails, or is carried out though its reply is an error.
Failures == {"failed", "lost"}

\* What a deletion does to the objects of one kind, and a creation. Creating
\* what exists fails.
Deleted(objects, o) == IF o = "failed" THEN objects ELSE [objects EXCEPT ![cur] = "none"]
Created(objects, o) == IF o = "failed" \/ objects[cur] # "none" THEN objects
                       ELSE [objects EXCEPT ![cur] = "fresh"]

Init ==
  /\ pc = "list"
  /\ types = SupportedTypes
  /\ listed = {}
  /\ cur = None
  /\ esKnown = FALSE
  /\ mounts = [r \in Resources |-> FALSE]
  /\ pod \in [Resources -> {"none", "stale"}]
  /\ keystore \in [Resources -> {"none", "stale"}]
  /\ \A r \in Resources \ Elasticsearch : keystore[r] = "none"
  /\ registered = {}
  /\ skipped = {}
  /\ reported = {}
  /\ fault = [r \in Resources |-> {}]

Goto(p) == pc' = p

\* The visit of the current resource is over.
Leave == /\ Goto("visit") /\ cur' = None /\ UNCHANGED <<types, listed>>

\* recordErr, with an error of the given kind about the current resource.
Record(kind) ==
  /\ reported' = reported \cup {cur}
  /\ fault' = [fault EXCEPT ![cur] = @ \cup {kind}]

-----------------------------------------------------------------------------
(***************************************************************************)
(* The loops over the types and over the resources of a type.              *)
(***************************************************************************)
ListType ==
  /\ pc = "list" /\ types # <<>>
  /\ listed' = Head(types)
  /\ types' = Tail(types)
  /\ Goto("visit")
  /\ UNCHANGED <<cur, localVars, clusterVars, resultVars, errorVars>>

\* getResources or Visit returns an error: no other type is tried, and
\* runStackDiagnostics returns.
ListFails ==
  /\ pc \in {"list", "visit"} /\ (pc = "list" => types # <<>>)
  /\ Goto("bailed")
  /\ UNCHANGED <<loopVars, localVars, clusterVars, resultVars, errorVars>>

\* With or without an error from the visitor, which is recorded only.
Visit(r) ==
  /\ pc = "visit" /\ r \in listed
  /\ cur' = r
  /\ listed' = listed \ {r}
  /\ reported' \in {reported, reported \cup {r}}
  /\ Goto("info")
  /\ UNCHANGED <<types, localVars, clusterVars, resultVars, fault>>

TypeDone ==
  /\ pc = "visit" /\ listed = {}
  /\ Goto("list")
  /\ UNCHANGED <<loopVars, localVars, clusterVars, resultVars, errorVars>>

Finish ==
  /\ pc = "list" /\ types = <<>>
  /\ Goto("scheduled")
  /\ UNCHANGED <<loopVars, localVars, clusterVars, resultVars, errorVars>>

(***************************************************************************)
(* extractEsInfo, the filters and determineESCredentialsSecret.            *)
(***************************************************************************)

\* Mistake: only Elasticsearch has an esName.
ReadOwnName ==
  /\ pc = "info"
  /\ esKnown' = (cur \in Elasticsearch)
  /\ Goto("filter")
  /\ UNCHANGED <<loopVars, mounts, clusterVars, resultVars, errorVars>>

\* Logstash has no esName.
ReadInfo ==
  /\ pc = "info"
  /\ esKnown' = (cur \notin Logstash)
  /\ Goto("filter")
  /\ UNCHANGED <<loopVars, mounts, clusterVars, resultVars, errorVars>>

\* A Kibana without elasticsearchRef has none either. This is no error yet.
NoReference ==
  /\ pc = "info" /\ cur \in Kibana
  /\ esKnown' = FALSE
  /\ fault' = [fault EXCEPT ![cur] = @ \cup {"reference"}]
  /\ Goto("filter")
  /\ UNCHANGED <<loopVars, mounts, clusterVars, resultVars, reported>>

\* The error is recorded and esName left empty; the visit goes on.
InfoUnreadable ==
  /\ pc = "info"
  /\ esKnown' = FALSE
  /\ Record("info")
  /\ Goto("filter")
  /\ UNCHANGED <<loopVars, mounts, clusterVars, resultVars>>

FilterOut ==
  /\ pc = "filter"
  /\ skipped' = skipped \cup {cur}
  /\ Leave
  /\ UNCHANGED <<localVars, clusterVars, registered, errorVars>>

FilterIn ==
  /\ pc = "filter"
  /\ Goto("credentials")
  /\ UNCHANGED <<loopVars, localVars, clusterVars, resultVars, errorVars>>

\* Mistake: a client certificate is looked for whatever the type.
CredentialsFoundAnyType ==
  /\ pc = "credentials" /\ esKnown
  /\ Goto("certificate")
  /\ UNCHANGED <<loopVars, localVars, clusterVars, resultVars, errorVars>>

\* One of the cluster's two user Secrets is there. Only Elasticsearch may need
\* a client certificate.
CredentialsFound ==
  /\ pc = "credentials" /\ esKnown
  /\ Goto(IF cur \in Elasticsearch THEN "certificate" ELSE "render")
  /\ UNCHANGED <<loopVars, localVars, clusterVars, resultVars, errorVars>>

\* Mistake: the next resource is tried without a word.
CredentialsMissingSilently ==
  /\ pc = "credentials"
  /\ fault' = IF esKnown THEN [fault EXCEPT ![cur] = @ \cup {"credentials"}] ELSE fault
  /\ Leave
  /\ UNCHANGED <<localVars, clusterVars, resultVars, reported>>

\* There is none, or the requests fail. Without esName there never is one, and
\* nothing had to go wrong for it.
CredentialsMissing ==
  /\ pc = "credentials"
  /\ reported' = reported \cup {cur}
  /\ fault' = IF esKnown THEN [fault EXCEPT ![cur] = @ \cup {"credentials"}] ELSE fault
  /\ Leave
  /\ UNCHANGED <<localVars, clusterVars, resultVars>>

(***************************************************************************)
(* setupClientKeystore.                                                    *)
(***************************************************************************)
NoClientCertificate ==
  /\ pc = "certificate"
  /\ Goto("render")
  /\ UNCHANGED <<loopVars, localVars, clusterVars, resultVars, errorVars>>

\* The operator's Secret cannot be read or is incomplete, or no keystore can be
\* built from it.
CertificateUnusable ==
  /\ pc = "certificate"
  /\ Record("certificate")
  /\ Leave
  /\ UNCHANGED <<localVars, clusterVars, resultVars>>

CertificateFound ==
  /\ pc = "certificate"
  /\ Goto("replace")
  /\ UNCHANGED <<loopVars, localVars, clusterVars, resultVars, errorVars>>

ReplaceKeystore ==
  /\ pc = "replace"
  /\ keystore' = Deleted(keystore, "ok")
  /\ Goto("keystore")
  /\ UNCHANGED <<loopVars, localVars, pod, resultVars, errorVars>>

ReplaceKeystoreFails(o) ==
  /\ pc = "replace"
  /\ keystore' = Deleted(keystore, o)
  /\ Record("keystore")
  /\ Leave
  /\ UNCHANGED <<localVars, pod, resultVars>>

CreateKeystore ==
  /\ pc = "keystore" /\ keystore[cur] = "none"
  /\ keystore' = Created(keystore, "ok")
  /\ mounts' = [mounts EXCEPT ![cur] = TRUE]
  /\ Goto("render")
  /\ UNCHANGED <<loopVars, esKnown, pod, resultVars, errorVars>>

\* The caller only learns that there is no name: it does not clean up.
CreateKeystoreFails(o) ==
  /\ pc = "keystore"
  /\ keystore' = Created(keystore, o)
  /\ Record("keystore")
  /\ Leave
  /\ UNCHANGED <<localVars, pod, resultVars>>

(***************************************************************************)
(* scheduleJob.                                                            *)
(***************************************************************************)

\* detectServicePort has an answer whatever happens.
RenderPod ==
  /\ pc = "render"
  /\ Goto("delete")
  /\ UNCHANGED <<loopVars, localVars, clusterVars, resultVars, errorVars>>

\* The patch of the user does not apply, or leaves a Pod that could not work. It
\* is looked at here for the first time, once per resource, and an error is one
\* like any other: it is recorded, and the next resource is tried. README.md:186
\* and cmd/main.go:61 say otherwise: that the tool exits with an error, before it
\* contacts the API server.
RenderFails ==
  /\ pc = "render"
  /\ Record("render")
  /\ Goto("cleanup")
  /\ UNCHANGED <<loopVars, localVars, clusterVars, resultVars>>

DeleteStalePod ==
  /\ pc = "delete"
  /\ pod' = Deleted(pod, "ok")
  /\ Goto("create")
  /\ UNCHANGED <<loopVars, localVars, keystore, resultVars, errorVars>>

DeleteStalePodFails(o) ==
  /\ pc = "delete"
  /\ pod' = Deleted(pod, o)
  /\ Record("pod")
  /\ Goto("cleanup")
  /\ UNCHANGED <<loopVars, localVars, keystore, resultVars>>

CreatePod ==
  /\ pc = "create" /\ pod[cur] = "none"
  /\ pod' = Created(pod, "ok")
  /\ Goto("register")
  /\ UNCHANGED <<loopVars, localVars, keystore, resultVars, errorVars>>

\* Mistake: the job is registered although its Pod was not created.
CreatePodFailsUnseen(o) ==
  /\ pc = "create"
  /\ pod' = Created(pod, o)
  /\ Goto("register")
  /\ UNCHANGED <<loopVars, localVars, keystore, resultVars, errorVars>>

CreatePodFails(o) ==
  /\ pc = "create"
  /\ pod' = Created(pod, o)
  /\ Record("pod")
  /\ Goto("cleanup")
  /\ UNCHANGED <<loopVars, localVars, keystore, resultVars>>

Register ==
  /\ pc = "register"
  /\ registered' = registered \cup {cur}
  /\ Leave
  /\ UNCHANGED <<localVars, clusterVars, skipped, errorVars>>

\* Mistake: the Secret of a job that was not scheduled is forgotten.
ForgetKeystore ==
  /\ pc = "cleanup"
  /\ Leave
  /\ UNCHANGED <<localVars, clusterVars, resultVars, errorVars>>

\* After scheduleJob failed; nothing is deleted when there is no name.
CleanUpKeystore ==
  /\ pc = "cleanup"
  /\ keystore' = IF mounts[cur] THEN Deleted(keystore, "ok") ELSE keystore
  /\ Leave
  /\ UNCHANGED <<localVars, pod, resultVars, errorVars>>

CleanUpKeystoreFails(o) ==
  /\ pc = "cleanup" /\ mounts[cur]
  /\ keystore' = Deleted(keystore, o)
  /\ Record("keystore")
  /\ Leave
  /\ UNCHANGED <<localVars, pod, resultVars>>

\* The call goes on to extractJobResults, or has returned.
Stop == pc \in {"scheduled", "bailed"} /\ UNCHANGED vars

-----------------------------------------------------------------------------
ListStep == ListType \/ ListFails \/ (\E r \in Resources : Visit(r)) \/ TypeDone \/ Finish

InfoStep == ReadInfo \/ NoReference \/ InfoUnreadable \/ FilterOut \/ FilterIn
            \/ CredentialsFound \/ CredentialsMissing

KeystoreStep == \/ NoClientCertificate \/ CertificateUnusable \/ CertificateFound
                \/ ReplaceKeystore \/ CreateKeystore \/ CleanUpKeystore
                \/ \E o \in Failures : \/ ReplaceKeystoreFails(o)
                                       \/ CreateKeystoreFails(o)
                                       \/ CleanUpKeystoreFails(o)

PodStep == \/ RenderPod \/ RenderFails \/ DeleteStalePod \/ CreatePod \/ Register
           \/ \E o \in Failures : DeleteStalePodFails(o) \/ CreatePodFails(o)

Next == ListStep \/ InfoStep \/ KeystoreStep \/ PodStep \/ Stop

Spec == Init /\ [][Next]_vars

-----------------------------------------------------------------------------
(***************************************************************************)
(* Properties.                                                             *)
(***************************************************************************)
PC == {"list", "visit", "info", "filter", "credentials", "certificate", "replace",
       "keystore", "render", "delete", "create", "register", "cleanup",
       "scheduled", "bailed"}
Kinds == {"reference", "info", "credentials", "certificate", "keystore", "render", "pod"}
Visiting == pc \notin {"list", "visit", "scheduled", "bailed"}

\* Types. A resource is current exactly while it is visited; only one of
\* Elasticsearch is given key material, and only its Pod mounts any.
TypeOK ==
  /\ pc \in PC
  /\ types \in Seq(SUBSET Resources)
  /\ listed \subseteq Resources
  /\ cur \in Resources \cup {None} /\ (Visiting <=> cur # None)
  /\ esKnown \in BOOLEAN
  /\ mounts \in [Resources -> BOOLEAN]
  /\ pod \in [Resources -> {"none", "stale", "fresh"}]
  /\ keystore \in [Resources -> {"none", "stale", "fresh"}]
  /\ \A r \in Resources \ Elasticsearch : keystore[r] = "none" /\ ~mounts[r]
  /\ pc \in {"certificate", "replace", "keystore"} => cur \in Elasticsearch
  /\ registered \subseteq Resources /\ skipped \subseteq Resources /\ reported \subseteq Resources
  /\ fault \in [Resources -> SUBSET Kinds]

\* Resources that were visited. Those of the types not yet listed were not.
Pending == listed \cup UNION {types[i] : i \in DOMAIN types}
Settled == Resources \ (Pending \cup {cur})

\* A registered job has a Pod of this run and, when it mounts a keystore, the
\* Secret this run created for it: the jobs that StackDiag starts with exist.
RegisteredIsReady ==
  \A r \in registered : pod[r] = "fresh" /\ (mounts[r] => keystore[r] = "fresh")

\* No resource is lost without a word: when its visit is over it has a job, or
\* the filters left it out, or the archive has an error about it. That error is
\* also all that comes of an invalid patch (RenderFails), with which the tool
\* should exit before it makes any request, says README.md:186: of that nothing is
\* claimed here, since the code does not do it.
SettledIsExplained == \A r \in Settled : r \in registered \cup skipped \cup reported

\* Key material is not left behind: a keystore of this run without a job is one
\* that a failed request about it left there, and a Pod likewise; the archive has
\* the error.
LeftoversAreExplained ==
  \A r \in Settled \ registered :
    /\ keystore[r] = "fresh" => "keystore" \in fault[r] /\ r \in reported
    /\ pod[r] = "fresh" => "pod" \in fault[r] /\ r \in reported

\* When nothing goes wrong with a resource of a supported type, it is scheduled.
SupportedIsScheduled ==
  \A r \in Settled \ skipped : fault[r] = {} => r \in registered

(***************************************************************************)
(* Scheduling as the first part of a session, before any job is done:      *)
(* StackDiag's step Schedule(j) is the Register of j.                      *)
(***************************************************************************)
status == [r \in Resources |-> IF r \in registered THEN "open" ELSE "unscheduled"]

session == IF pc = "bailed" THEN "abandoned"
           ELSE IF pc # "scheduled" THEN "scheduling"
           ELSE IF registered = {} THEN "over" ELSE "collecting"

Session == INSTANCE DiagSession WITH Jobs <- Resources

\* However the requests go, a resource gets one job, while the session schedules;
\* the call returns at once when there is none, and goes on to collect otherwise.
IsSessionStart == Session!Spec

(***************************************************************************)
(* The inductive invariant behind the properties above.                    *)
(***************************************************************************)

\* A resource has one type and is listed once, so it is visited once.
VisitedOnce ==
  /\ pc = "list" => listed = {}
  /\ \A i, j \in DOMAIN types : i # j => types[i] \cap types[j] = {}
  /\ \A i \in DOMAIN types : types[i] \cap listed = {}
  /\ cur \notin Pending

\* Before its visit a resource has no object of this run.
Untouched(r) == ~mounts[r] /\ pod[r] # "fresh" /\ keystore[r] # "fresh"
PendingUntouched == \A r \in Pending : Untouched(r)

\* During its visit the keystore of this run is the one that is mounted, and the
\* Pod is there from its creation on. A visit that ends in the clean-up has its
\* error, and one without esName an explanation.
MidVisit ==
  /\ mounts[cur] <=> keystore[cur] = "fresh"
  /\ pc \notin {"render", "delete", "create", "register", "cleanup"} => ~mounts[cur]
  /\ pc \notin {"register", "cleanup"} => pod[cur] # "fresh"
  /\ pc = "register" => pod[cur] = "fresh"
  /\ pc = "cleanup" => /\ cur \in reported /\ fault[cur] # {}
                       /\ pod[cur] = "fresh" => "pod" \in fault[cur]
  /\ pc \in {"filter", "credentials"} /\ ~esKnown => cur \in Logstash \/ fault[cur] # {}

\* After its visit a resource is as the properties have it.
WellSettled(r) ==
  /\ r \in registered \cup skipped \cup reported
  /\ r \in registered => pod[r] = "fresh" /\ (mounts[r] => keystore[r] = "fresh")
  /\ r \notin registered =>
       /\ keystore[r] = "fresh" => "keystore" \in fault[r] /\ r \in reported
       /\ pod[r] = "fresh" => "pod" \in fault[r] /\ r \in reported
  /\ r \notin skipped \cup Logstash /\ fault[r] = {} => r \in registered

IndInv ==
  /\ TypeOK
  /\ VisitedOnce
  /\ PendingUntouched
  /\ Visiting => MidVisit
  /\ \A r \in Settled : WellSettled(r)
  /\ registered \subseteq Settled
=============================================================================
