------------------------------ MODULE Operator ------------------------------
(***************************************************************************)
(* What Run finds out about the operators before it collects anything:     *)
(* detectOperatorInfo for each operator namespace, with the version of     *)
(* version.go and the namespaces of detectManagedNamespaces, and then      *)
(* warnMissingNamespaces (internal/operator.go).                           *)
(*                                                                         *)
(* Each request to the API server is a step of its own, and may fail. What *)
(* is in a namespace does not change meanwhile.                            *)
(*                                                                         *)
(* A comma-separated list is the sequence of its parts, "" among them; the *)
(* empty string is <<"">>. A path is the sequence of its parts. A version  *)
(* is a number, and 0 one that cannot be parsed.                           *)
(***************************************************************************)
EXTENDS Naturals, SequencesExt

CONSTANTS
  Operators,        \* the namespaces of --operator-namespaces
  Collected,        \* the namespaces the run collects from
  NamespaceLabels,  \* the namespaces of the cluster, with their labels
  Installs,         \* what a namespace may hold: StatefulSets, Deployment, ConfigMaps
  UserVersions,     \* what --eck-version may be
  Fallback,         \* fallbackMaxVersion
  NotGiven,         \* no --eck-version
  Nothing

(***************************************************************************)
(* A container is the operator's by the name of its image, eckImage; tag   *)
(* is the version of that image. A volume is a ConfigMap or Nothing, and   *)
(* all of it or the items it lists; a mount without subPath has <<>> there.*)
(***************************************************************************)
Versions == 0..Fallback
List == Seq(STRING)
Flags  == [flag : STRING, value : List]
EnvVars == [value : List, annotation : STRING]
Mounts == [name : STRING, path : List, subPath : List]
Items  == [path : List, key : List]
Containers ==
  [name : STRING, eckImage : BOOLEAN, tag : Versions,
   args : Seq(Flags), env : Seq(EnvVars), mounts : Seq(Mounts)]
Files == [valid : BOOLEAN, selector : SUBSET STRING, namespaces : List, namespacesAreOther : BOOLEAN]

\* What the API server and the operator accept: a mount has its volume, no two
\* items have a path, and a config file is no directory.
IsMounted(w) ==
  /\ \A v \in DOMAIN w.volumes :
       LET items == w.volumes[v].items IN
       items \in Seq(Items) /\ \A i, k \in DOMAIN items : items[i].path = items[k].path => i = k
  /\ \A i \in DOMAIN w.containers : \A m \in ToSet(w.containers[i].mounts) :
       /\ m.name \in DOMAIN w.volumes
       /\ \A a \in ToSet(w.containers[i].args) :
            a.flag = "--config" /\ a.value = m.path => m.subPath # <<>>

\* A StatefulSet or Deployment; runs is the version of the operator it runs.
IsWorkload(w) ==
  /\ w.labels \subseteq {"control-plane", "managed-by-helm", "eck-chart", "olm.owner"}
  /\ w.versionLabel \in Versions /\ w.olmVersion \in Versions /\ w.runs \in Versions
  /\ w.containers \in Seq(Containers)
  /\ IsMounted(w)

\* Labels and tags tell the truth where they tell anything.
IsHonest(w) ==
  /\ w.versionLabel \in {0, w.runs} /\ w.olmVersion \in {0, w.runs}
  /\ \A i \in DOMAIN w.containers : w.containers[i].eckImage => w.containers[i].tag \in {0, w.runs}

IsInstall(x) ==
  /\ x.ssets \in Seq(ToSet(x.ssets))
  /\ \A w \in ToSet(x.ssets) \cup ({x.deployment} \ {Nothing}) : IsWorkload(w) /\ IsHonest(w)
  /\ \A cm \in DOMAIN x.configMaps : \A key \in DOMAIN x.configMaps[cm] :
       key \in List /\ x.configMaps[cm][key] \in Files

ASSUME FallbackIsMax == Fallback \in Nat \ {0} /\ UserVersions \ {NotGiven} \subseteq 0..Fallback
ASSUME Installable   == \A x \in Installs : IsInstall(x)

VARIABLES
  cluster,      \* what there is in the namespace of each operator
  userVersion,  \* --eck-version
  at,           \* the request that is next, or "next", "warn", "done"
  todo,         \* operators still to be visited by the loop that is under way
  cur,          \* the operator that is looked at
  work,         \* its StatefulSet or Deployment
  infos,        \* operatorInfos
  said          \* the messages of warnMissingNamespaces

vars == <<cluster, userVersion, at, todo, cur, work, infos, said>>

All == [all |-> TRUE, static |-> {}, selector |-> {}]
Static(names)   == [all |-> FALSE, static |-> names, selector |-> {}]
Selector(lbls)  == [all |-> FALSE, static |-> {}, selector |-> lbls]

\* The first of the elements of s at the given places.
First(s, places) == s[Min(places)]

-----------------------------------------------------------------------------
(***************************************************************************)
(* version.go                                                              *)
(***************************************************************************)

\* Mistake: the first container is taken for the operator.
FirstContainer(containers) ==
  IF Head(containers).tag = 0 THEN Fallback ELSE Head(containers).tag

\* By the name of its image, the first container that may be the operator.
extractVersionFromContainers(containers) ==
  LET named == {i \in DOMAIN containers : containers[i].eckImage} IN
  IF named = {} \/ First(containers, named).tag = 0 THEN Fallback
                                                   ELSE First(containers, named).tag

VersionOr(v, containers) == IF v # 0 THEN v ELSE extractVersionFromContainers(containers)

versionFromStatefulSet(w) == VersionOr(w.versionLabel, w.containers)
versionFromDeployment(w)  == VersionOr(w.olmVersion, w.containers)

\* The version a user gave is taken as it is, and none is detected then even if
\* it cannot be parsed.
UserVersion == IF userVersion \in {NotGiven, 0} THEN Fallback ELSE userVersion

maxVersion == Max({infos[o].version : o \in DOMAIN infos})

detectInstallMethod(w) ==
  CASE "eck-chart" \in w.labels     -> "helm"
    [] "eck-chart" \notin w.labels /\ "control-plane" \in w.labels -> "yaml"
    [] w.labels \cap {"eck-chart", "control-plane"} = {} /\ "olm.owner" \in w.labels -> "olm"
    [] OTHER -> "unknown"

-----------------------------------------------------------------------------
(***************************************************************************)
(* The sources of the managed namespaces.                                  *)
(***************************************************************************)
splitCSV(s) == ToSet(s) \ {""}

FlagsAt(c, flag) == {i \in DOMAIN c.args : c.args[i].flag = flag}

\* Mistake: only the first of the flags counts.
FirstNamespacesFlag(c) == splitCSV(First(c.args, FlagsAt(c, "--namespaces")).value)

NamespacesFlags(c) == UNION {splitCSV(c.args[i].value) : i \in FlagsAt(c, "--namespaces")}

\* The environment variables NAMESPACES, with what those taken from an annotation
\* of the Pod stand for.
resolveEnvValueFromFieldRef(w, e) ==
  IF e.annotation \in DOMAIN w.annotations THEN w.annotations[e.annotation] ELSE <<"">>

EnvValue(w, e) == IF e.value # <<"">> THEN e.value ELSE resolveEnvValueFromFieldRef(w, e)
EnvAt(w, c)    == {i \in DOMAIN c.env : EnvValue(w, c.env[i]) # <<"">>}

\* The mount that has the file, and what the file is called there.
Covers(mount, path) ==
  IF mount.subPath # <<>> THEN mount.path = path ELSE IsPrefix(mount.path, path)

RelPath(mount, path) ==
  IF mount.subPath # <<>> THEN mount.subPath
  ELSE IF IsStrictPrefix(mount.path, path) THEN SubSeq(path, Len(mount.path) + 1, Len(path))
  ELSE path

NoRef == [cm |-> Nothing, key |-> <<>>]

\* The ConfigMap and the key in it that are mounted as the file.
RefOf(w, mount, path) ==
  LET volume == w.volumes[mount.name]
      rel == RelPath(mount, path)
      listed == {i \in DOMAIN volume.items : volume.items[i].path = rel}
  IN  IF volume.configMap = Nothing THEN NoRef
      ELSE IF volume.items = <<>> THEN [cm |-> volume.configMap, key |-> rel]
      ELSE IF listed = {} THEN NoRef
      ELSE [cm |-> volume.configMap, key |-> First(volume.items, listed).key]

findConfigMapForPath(w, c, path) ==
  LET covering == {i \in DOMAIN c.mounts : Covers(c.mounts[i], path)}
  IN  IF covering = {} THEN NoRef ELSE RefOf(w, First(c.mounts, covering), path)

\* Mistake: a selector does not keep the list from being read.
SelectorAndList(content) ==
  [all |-> FALSE, static |-> splitCSV(content.namespaces), selector |-> content.selector]

\* The config file. A list in YAML is taken item by item, only a string is split
\* at its commas; both are a sequence of names here, so an item with a comma in
\* it, or of blanks only, is not told apart. What is neither, like a file that is
\* no YAML, is an error and counts as All.
parseManagedNamespacesFromConfigMap(content) ==
  IF ~content.valid THEN All
  ELSE IF content.selector # {} THEN Selector(content.selector)
  ELSE IF content.namespacesAreOther \/ splitCSV(content.namespaces) = {} THEN All
  ELSE Static(splitCSV(content.namespaces))

(***************************************************************************)
(* detectManagedNamespaces, up to the request for the ConfigMap.           *)
(***************************************************************************)
ManagersAt(w) == {i \in DOMAIN w.containers : w.containers[i].name = "manager"}
Manager(w)    == First(w.containers, ManagersAt(w))

LocalNamespaces(w, c) ==
  IF FlagsAt(c, "--namespaces") # {} THEN Static(NamespacesFlags(c))
  ELSE IF EnvAt(w, c) # {} THEN Static(splitCSV(EnvValue(w, First(c.env, EnvAt(w, c)))))
  ELSE All

DetectedLocally(w) == IF ManagersAt(w) = {} THEN All ELSE LocalNamespaces(w, Manager(w))

\* Where the config file is, if it is asked for at all.
ConfigRef(w) ==
  LET c == Manager(w)
      configs == FlagsAt(c, "--config")
  IN  IF ManagersAt(w) = {} \/ DetectedLocally(w) # All \/ configs = {} THEN NoRef
      ELSE findConfigMapForPath(w, c, First(c.args, configs).value)

-----------------------------------------------------------------------------
(***************************************************************************)
(* detectOperatorInfo                                                      *)
(***************************************************************************)
Goto(place) == at' = place
Ask(place)  == at = place /\ UNCHANGED <<cluster, userVersion, todo, cur, said>>

ssets == cluster[cur].ssets

Start(o) ==
  /\ at = "next" /\ o \in todo
  /\ todo' = todo \ {o} /\ cur' = o /\ work' = Nothing
  /\ Goto("control-plane")
  /\ infos' = [x \in DOMAIN infos \cup {o} |->
                IF x = o THEN [version |-> UserVersion, managed |-> All, method |-> "unknown"]
                         ELSE infos[x]]
  /\ UNCHANGED <<cluster, userVersion, said>>

\* A request fails: what is known by then is kept. That there is no Deployment
\* is an error like any other.
RequestFails ==
  /\ \/ Ask("control-plane") \/ Ask("helm") \/ Ask("deployment") \/ Ask("configmap")
  /\ Goto("next")
  /\ UNCHANGED <<work, infos>>

\* What the workload itself says; the ConfigMap is asked for if it says no more.
Describe(w, version) ==
  /\ work' = w
  /\ infos' = [infos EXCEPT ![cur] =
       [version |-> IF userVersion = NotGiven THEN version ELSE @.version,
        managed |-> DetectedLocally(w),
        method  |-> detectInstallMethod(w)]]
  /\ Goto(IF ConfigRef(w) = NoRef THEN "next" ELSE "configmap")

DescribeStatefulSet(w) == Describe(w, versionFromStatefulSet(w))

\* findOperatorStatefulSet
ListControlPlane ==
  LET found == {i \in DOMAIN ssets : "control-plane" \in ssets[i].labels} IN
  /\ Ask("control-plane")
  /\ IF \E i \in found : found = {i}
       THEN DescribeStatefulSet(First(ssets, found))
       ELSE Goto("helm") /\ UNCHANGED <<work, infos>>

ListHelm ==
  LET found == {i \in DOMAIN ssets : {"managed-by-helm", "eck-chart"} \subseteq ssets[i].labels} IN
  /\ Ask("helm")
  /\ IF found # {}
       THEN DescribeStatefulSet(First(ssets, found))
       ELSE Goto("deployment") /\ UNCHANGED <<work, infos>>

GetDeployment ==
  LET w == cluster[cur].deployment IN
  /\ Ask("deployment")
  /\ w # Nothing
  /\ Describe(w, versionFromDeployment(w))

\* The ConfigMap may be missing, or the key in it.
GetConfigMap ==
  LET ref == ConfigRef(work)
      cms == cluster[cur].configMaps
      found == ref.cm \in DOMAIN cms /\ ref.key \in DOMAIN cms[ref.cm] IN
  /\ Ask("configmap")
  /\ Goto("next")
  /\ infos' = IF found THEN [infos EXCEPT ![cur].managed =
                               parseManagedNamespacesFromConfigMap(cms[ref.cm][ref.key])]
                       ELSE infos
  /\ UNCHANGED work

-----------------------------------------------------------------------------
(***************************************************************************)
(* warnMissingNamespaces                                                   *)
(***************************************************************************)
AllDetected ==
  /\ at = "next" /\ todo = {}
  /\ Goto("warn") /\ todo' = Operators
  /\ UNCHANGED <<cluster, userVersion, cur, work, infos, said>>

namespacesMatchingSelector(lbls) ==
  {n \in DOMAIN NamespaceLabels : lbls \subseteq NamespaceLabels[n]}

Warns(o) ==
  /\ at = "warn" /\ o \in todo /\ todo' = todo \ {o}
  /\ UNCHANGED <<cluster, userVersion, at, cur, work, infos>>

Say(o, what, names) == said' = said \cup {[operator |-> o, what |-> what, names |-> names]}

SayMissing(o, managed) ==
  IF managed \subseteq Collected THEN UNCHANGED said ELSE Say(o, "missing", managed \ Collected)

SayAll(o) ==
  /\ Warns(o)
  /\ infos[o].managed.all
  /\ Say(o, "all", {})

CheckSelector(o) ==
  /\ Warns(o)
  /\ infos[o].managed.selector # {}
  /\ SayMissing(o, namespacesMatchingSelector(infos[o].managed.selector))

\* The selector is invalid or the namespaces cannot be listed.
SelectorFails(o) ==
  /\ Warns(o)
  /\ infos[o].managed.selector # {}
  /\ Say(o, "unknown", {})

CheckStatic(o) ==
  /\ Warns(o)
  /\ ~infos[o].managed.all /\ infos[o].managed.selector = {}
  /\ SayMissing(o, infos[o].managed.static)

AllWarned ==
  /\ at = "warn" /\ todo = {}
  /\ Goto("done")
  /\ UNCHANGED <<cluster, userVersion, todo, cur, work, infos, said>>

-----------------------------------------------------------------------------
Init ==
  /\ cluster \in [Operators -> Installs]
  /\ userVersion \in UserVersions
  /\ at = "next" /\ todo = Operators
  /\ cur = Nothing /\ work = Nothing
  /\ infos = <<>> /\ said = {}

Detection ==
  \/ \E o \in Operators : Start(o)
  \/ RequestFails \/ ListControlPlane \/ ListHelm \/ GetDeployment \/ GetConfigMap

Warning == \E o \in Operators : SayAll(o) \/ CheckSelector(o) \/ SelectorFails(o) \/ CheckStatic(o)

Next == Detection \/ AllDetected \/ Warning \/ AllWarned

Spec == Init /\ [][Next]_vars

-----------------------------------------------------------------------------
(***************************************************************************)
(* What the operators in the cluster really do, which the run only infers. *)
(***************************************************************************)

\* The operator of a namespace. With two of them there the code assumes one, and
\* nothing is claimed.
Running(o) ==
  LET found == {w \in ToSet(cluster[o].ssets) : w.labels \cap {"control-plane", "eck-chart"} # {}}
               \cup ({cluster[o].deployment} \ {Nothing})
  IN  {w \in found : found = {w}}

\* The paths in a volume of a key of its ConfigMap: those its items say, or the key
\* itself. A mount shows all of the volume, or the one file that subPath picks.
InVolume(volume, key) ==
  IF volume.items = <<>> THEN {key}
  ELSE {x.path : x \in {y \in ToSet(volume.items) : y.key = key}}

ShownAt(mount, volume, key) ==
  IF mount.subPath = <<>> THEN {mount.path \o p : p \in InVolume(volume, key)}
  ELSE {mount.path : p \in InVolume(volume, key) \cap {mount.subPath}}

\* A process follows the deepest of the mounts on the way to a file.
IsOnTheWay(mount, path) ==
  IsPrefix(mount.path, path) /\ (mount.subPath # <<>> => mount.path = path)

Deepest(c, path) ==
  LET mounts == {m \in ToSet(c.mounts) : IsOnTheWay(m, path)}
  IN  {m \in mounts : \A other \in mounts : Len(other.path) <= Len(m.path)}

\* What it finds there, if it is from a ConfigMap.
Seen(o, w, mount, path) ==
  LET volume == w.volumes[mount.name]
      cms == cluster[o].configMaps
      data == cms[volume.configMap]
  IN  IF volume.configMap \notin DOMAIN cms THEN {}
      ELSE {data[key] : key \in {k \in DOMAIN data : path \in ShownAt(mount, volume, k)}}

\* A list without a name restricts nothing.
Named(names) == IF names = {} THEN DOMAIN NamespaceLabels ELSE names

\* The config files of an operator that can be read.
FilesOf(o, w, c) ==
  LET paths == {a.value : a \in {x \in ToSet(c.args) : x.flag = "--config"}}
      files == UNION {UNION {Seen(o, w, m, path) : m \in Deepest(c, path)} : path \in paths}
  IN  {file \in files : file.valid /\ (file.selector = {} => ~file.namespacesAreOther)}

FileManages(file) ==
  IF file.selector # {} THEN {n \in DOMAIN NamespaceLabels : file.selector \subseteq NamespaceLabels[n]}
                        ELSE Named(ToSet(file.namespaces) \ {""})

\* The command line goes before the environment, and that before the file. The
\* values of a repeated flag come together.
Manages(o, w) ==
  LET c == Manager(w)
      flags == {a \in ToSet(c.args) : a.flag = "--namespaces"}
      env == {EnvValue(w, e) : e \in ToSet(c.env)} \ {<<"">>}
      lists == IF flags # {} THEN {a.value : a \in flags} ELSE env
  IN  IF lists # {} THEN Named(UNION {ToSet(l) \ {""} : l \in lists})
      ELSE IF FilesOf(o, w, c) # {} THEN UNION {FileManages(f) : f \in FilesOf(o, w, c)}
      ELSE DOMAIN NamespaceLabels

\* Three cases the code does not see: a flag or variable that names no namespace
\* stands for all of them and is reported as none; of two mounts the file is looked
\* for in the first and not in the deepest; of two variables or two config files
\* the first is taken and not the last.
Hollow(w) == DetectedLocally(w) = Static({})

Nested(w) ==
  LET c == Manager(w) IN
  \E a \in ToSet(c.args) :
    LET onTheWay == {i \in DOMAIN c.mounts : IsOnTheWay(c.mounts[i], a.value)} IN
    /\ a.flag = "--config" /\ onTheWay # {}
    /\ Deepest(c, a.value) # {First(c.mounts, onTheWay)}

Repeated(w) ==
  LET c == Manager(w)
      configs == FlagsAt(c, "--config")
  IN  \/ \E i, k \in DOMAIN c.env : i # k
      \/ \E i, k \in configs : i # k

-----------------------------------------------------------------------------
\* All variables have their types. Exactly one of Static and Selector is set when
\* All is not, says the comment of ManagedNamespaces: at most one is.
TypeOK ==
  /\ at \in {"next", "control-plane", "helm", "deployment", "configmap", "warn", "done"}
  /\ todo \subseteq Operators /\ cur \in Operators \cup {Nothing}
  /\ DOMAIN infos \subseteq Operators
  /\ \A o \in DOMAIN infos :
       /\ infos[o].version \in Nat \ {0}
       /\ infos[o].method \in {"helm", "yaml", "olm", "unknown"}
       /\ infos[o].managed = All \/ infos[o].managed = Static(infos[o].managed.static)
            \/ infos[o].managed = Selector(infos[o].managed.selector)
  /\ at \in {"warn", "done"} => DOMAIN infos = Operators
  /\ at = "configmap" => ConfigRef(work) # NoRef

\* A namespace that an operator manages and that the run leaves out is never left
\* out without a word, whatever requests fail: the messages name it, or say that
\* the operator is taken to manage all namespaces, or that it is not known.
Told(o, n) == \E s \in said : s.operator = o /\ (s.what \in {"all", "unknown"} \/ n \in s.names)

Legible(w) == ManagersAt(w) # {} /\ ~Hollow(w) /\ ~Nested(w) /\ ~Repeated(w)

NothingMissedSilently ==
  at = "done" =>
    \A o \in Operators : \A w \in {x \in Running(o) : Legible(x)} :
      \A n \in Manages(o, w) \ Collected : Told(o, n)

\* The features that are turned on by version are those of the newest operator,
\* or all of them: no request that fails and no image that cannot be read makes
\* the run take an operator for older than it is. A user may.
VersionCoversAll ==
  at = "done" /\ userVersion = NotGiven =>
    \A o \in Operators : \A w \in Running(o) : w.runs <= maxVersion
=============================================================================
