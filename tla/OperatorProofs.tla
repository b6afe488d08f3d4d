--------------------------- MODULE OperatorProofs ---------------------------
(***************************************************************************)
(* Proofs about Operator, for any operators, installations and namespaces, *)
(* and whatever requests fail.                                             *)
(***************************************************************************)
EXTENDS Operator, TLAPS, WellFoundedInduction, SequenceTheorems

-----------------------------------------------------------------------------
(***************************************************************************)
(* The first place, the greatest version.                                  *)
(***************************************************************************)

LEMMA HasLeast ==
  ASSUME NEW S, S \subseteq Nat, S # {}
  PROVE  \E m \in S : \A k \in S : m <= k
<1>1. \E R : IsWellFoundedOn(R, Nat) /\ \A x, y \in Nat : x < y => <<x, y>> \in R
  <2>1. \A x, y \in Nat : x < y => <<x, y>> \in OpToRel(<, Nat)
    BY DEF OpToRel
  <2> QED
    BY <2>1, NatLessThanWellFounded
<1>2. PICK R : IsWellFoundedOn(R, Nat) /\ \A x, y \in Nat : x < y => <<x, y>> \in R
  BY <1>1
<1>3. \E m \in S : \A y \in S : ~(<<y, m>> \in R)
  <2>1. IsWellFoundedOn(R, Nat)
    BY <1>2
  <2>2. S \subseteq Nat /\ S # {}
    OBVIOUS
  <2> QED
    BY <2>1, <2>2, WFMin, Zenon
<1>4. PICK m \in S : \A y \in S : ~(<<y, m>> \in R)
  BY <1>3
<1>5. \A y \in S : ~(y < m)
  BY <1>2, <1>4
<1> QED
  BY <1>5

LEMMA HasGreatest ==
  ASSUME NEW N \in Nat, NEW S, S \subseteq 0..N, S # {}
  PROVE  Max(S) \in S /\ \A k \in S : k <= Max(S)
<1> DEFINE T == {x \in 0..N : N - x \in S}
<1>1. T \subseteq Nat /\ T # {}
  <2>1. PICK y \in S : TRUE
    OBVIOUS
  <2>2. N - y \in 0..N /\ N - (N - y) = y
    OBVIOUS
  <2> QED
    BY <2>1, <2>2
<1>2. PICK m \in T : \A k \in T : m <= k
  <2> HIDE DEF T
  <2> QED
    BY <1>1, HasLeast
<1>3. N - m \in S /\ \A k \in S : k <= N - m
  <2>1. ASSUME NEW k \in S PROVE k <= N - m
    <3>1. N - k \in T
      OBVIOUS
    <3> QED
      BY <1>2, <3>1
  <2> QED
    BY <1>2, <2>1
<1>4. \E x \in S : \A y \in S : x >= y
  BY <1>2, <1>3
<1> QED
  BY <1>4 DEF Max

\* First finds an element at one of the places.
LEMMA FirstIsThere ==
  ASSUME NEW S, NEW s \in Seq(S), NEW places, places \subseteq DOMAIN s, places # {}
  PROVE  /\ \E i \in places : First(s, places) = s[i]
         /\ First(s, places) \in S
<1>1. places \subseteq Nat /\ DOMAIN s = 1..Len(s)
  OBVIOUS
<1>2. \E m \in places : \A k \in places : m <= k
  BY <1>1, HasLeast
<1>3. Min(places) \in places
  BY <1>2 DEF Min
<1> QED
  BY <1>1, <1>3 DEF First

-----------------------------------------------------------------------------
(***************************************************************************)
(* Versions.                                                               *)
(***************************************************************************)

\* What is read from a workload is never older than what it runs.
LEMMA VersionIsHighEnough ==
  ASSUME NEW w, IsWorkload(w), IsHonest(w)
  PROVE  /\ versionFromStatefulSet(w) \in Versions \ {0} /\ w.runs <= versionFromStatefulSet(w)
         /\ versionFromDeployment(w) \in Versions \ {0} /\ w.runs <= versionFromDeployment(w)
<1> DEFINE v == extractVersionFromContainers(w.containers)
<1>1. v \in Versions \ {0} /\ w.runs <= v
  <2> DEFINE named == {i \in DOMAIN w.containers : w.containers[i].eckImage}
  <2> DEFINE c == First(w.containers, named)
  <2>1. CASE named = {} \/ c.tag = 0
    <3>1. v = Fallback
      BY <2>1 DEF extractVersionFromContainers
    <3> QED
      BY <3>1, FallbackIsMax DEF Versions, IsWorkload
  <2>2. CASE named # {} /\ c.tag # 0
    <3>1. v = c.tag
      BY <2>2 DEF extractVersionFromContainers
    <3>2. PICK i \in named : c = w.containers[i]
      BY <2>2, FirstIsThere DEF IsWorkload
    <3>3. c \in Containers /\ c.tag = w.runs
      BY <2>2, <3>2, FirstIsThere DEF IsWorkload, IsHonest
    <3> QED
      BY <2>2, <3>1, <3>3 DEF Containers, IsWorkload, Versions
  <2> QED
    BY <2>1, <2>2
<1>2. w.runs \in Versions /\ w.runs <= w.runs
  BY FallbackIsMax DEF IsWorkload, Versions
<1> QED
  BY <1>1, <1>2 DEF versionFromStatefulSet, versionFromDeployment, VersionOr, IsHonest, IsWorkload
-----------------------------------------------------------------------------
(***************************************************************************)
(* Namespaces.                                                             *)
(***************************************************************************)

Shape(m) == m = All \/ m = Static(m.static) \/ m = Selector(m.selector)

\* What is found out leaves out no namespace that the operator manages.
Covered(names, m) ==
  \/ m.all
  \/ m.selector # {} /\ names \subseteq namespacesMatchingSelector(m.selector)
  \/ m.selector = {} /\ names \subseteq m.static

\* Flags and variables.
LEMMA LocalIsRight ==
  ASSUME NEW o, NEW w, IsWorkload(w), Legible(w)
  PROVE  Covered(Manages(o, w), DetectedLocally(w)) /\ Shape(DetectedLocally(w))
<1> DEFINE c == Manager(w)
<1> DEFINE flags == {a \in ToSet(c.args) : a.flag = "--namespaces"}
<1> DEFINE env == {EnvValue(w, e) : e \in ToSet(c.env)} \ {<<"">>}
<1>1. c \in Containers /\ c.args \in Seq(Flags) /\ c.env \in Seq(EnvVars)
  <2>1. c \in Containers
    BY FirstIsThere DEF IsWorkload, Legible, Manager, ManagersAt
  <2> QED
    BY <2>1 DEF Containers
<1>2. DetectedLocally(w) = LocalNamespaces(w, c)
  BY DEF DetectedLocally, Legible
<1>3. CASE FlagsAt(c, "--namespaces") # {}
  <2>1. DetectedLocally(w) = Static(NamespacesFlags(c))
    BY <1>2, <1>3 DEF LocalNamespaces
  <2>2. NamespacesFlags(c) # {}
    BY <2>1 DEF Legible, Hollow
  <2>3. flags # {} /\ {a.value : a \in flags} # {}
    BY <1>3 DEF FlagsAt, ToSet
  <2>4. UNION {ToSet(l) \ {""} : l \in {a.value : a \in flags}} = NamespacesFlags(c)
    <3>1. \A x : (\E b \in flags : x = b) <=> \E i \in FlagsAt(c, "--namespaces") : x = c.args[i]
      BY DEF FlagsAt, ToSet
    <3>2. \A n : (\E b \in flags : n \in splitCSV(b.value)) <=>
                \E i \in FlagsAt(c, "--namespaces") : n \in splitCSV(c.args[i].value)
      <4> HIDE DEF flags, c
      <4> QED
        BY <3>1
    <3>3. \A n : n \in UNION {ToSet(l) \ {""} : l \in {a.value : a \in flags}} <=>
                \E b \in flags : n \in splitCSV(b.value)
      <4> HIDE DEF flags
      <4> QED
        BY DEF splitCSV
    <3>4. \A n : n \in NamespacesFlags(c) <=>
                \E i \in FlagsAt(c, "--namespaces") : n \in splitCSV(c.args[i].value)
      BY DEF NamespacesFlags
    <3> QED
      BY <3>2, <3>3, <3>4
  <2>5. Manages(o, w) = NamespacesFlags(c)
    BY <2>2, <2>3, <2>4 DEF Manages, Named
  <2> QED
    BY <2>1, <2>5 DEF Covered, Shape, Static
<1>4. CASE FlagsAt(c, "--namespaces") = {} /\ EnvAt(w, c) # {}
  <2> DEFINE e == First(c.env, EnvAt(w, c))
  <2>1. DetectedLocally(w) = Static(splitCSV(EnvValue(w, e)))
    BY <1>2, <1>4 DEF LocalNamespaces
  <2>2. splitCSV(EnvValue(w, e)) # {}
    BY <2>1 DEF Legible, Hollow
  <2>3. flags = {}
    BY <1>4 DEF FlagsAt, ToSet
  <2>4. PICK i \in EnvAt(w, c) : e = c.env[i]
    <3>1. EnvAt(w, c) \subseteq DOMAIN c.env
      BY DEF EnvAt
    <3> QED
      BY <1>1, <1>4, <3>1, FirstIsThere
  <2>5. \A k \in DOMAIN c.env : k = i
    BY <2>4 DEF Legible, Repeated, EnvAt
  <2>6. env = {EnvValue(w, e)}
    BY <2>4, <2>5 DEF EnvAt, ToSet
  <2>7. UNION {ToSet(l) \ {""} : l \in env} = splitCSV(EnvValue(w, e))
    BY <2>6 DEF splitCSV
  <2>8. Manages(o, w) = splitCSV(EnvValue(w, e))
    BY <2>2, <2>3, <2>6, <2>7 DEF Manages, Named
  <2> QED
    BY <2>1, <2>8 DEF Covered, Shape, Static
<1>5. CASE FlagsAt(c, "--namespaces") = {} /\ EnvAt(w, c) = {}
  BY <1>2, <1>5 DEF LocalNamespaces, Covered, Shape, All
<1> QED
  BY <1>3, <1>4, <1>5

LEMMA ElementsOf ==
  ASSUME NEW S, NEW s \in Seq(S)
  PROVE  (\A i \in DOMAIN s : s[i] \in S) /\ \A x \in ToSet(s) : x \in S
BY ElementOfSeq, LenProperties DEF ToSet

\* The rest of a path is what a prefix has to be extended by.
LEMMA RestOfPath ==
  ASSUME NEW S, NEW a \in Seq(S), NEW q \in Seq(S), IsPrefix(a, q), NEW p \in Seq(S)
  PROVE  q = a \o p <=> p = SubSeq(q, Len(a) + 1, Len(q))
<1> DEFINE rest == SubSeq(q, Len(a) + 1, Len(q))
<1>1. /\ Len(a) \in Nat /\ Len(q) \in Nat /\ Len(p) \in Nat /\ Len(a) <= Len(q)
      /\ SubSeq(a, 1, Len(a)) = SubSeq(q, 1, Len(a))
  BY DEF IsPrefix
<1>2. /\ rest \in Seq(S) /\ Len(rest) = Len(q) - Len(a)
      /\ \A i \in 1..Len(rest) : rest[i] = q[Len(a) + i]
  <2>1. \A i \in Len(a) + 1 .. Len(q) : q[i] \in S
    BY <1>1, ElementOfSeq
  <2> QED
    BY <1>1, <2>1, SubSeqProperties
<1>3. ASSUME q = a \o p PROVE p = rest
  <2>1. Len(q) = Len(a) + Len(p)
    BY <1>3, ConcatProperties
  <2>2. \A i \in 1..Len(p) : p[i] = rest[i]
    <3>1. ASSUME NEW i \in 1..Len(p) PROVE p[i] = rest[i]
      <4>1. (a \o p)[Len(a) + i] = p[i]
        BY <1>1, ConcatProperties
      <4> QED
        BY <1>1, <1>2, <1>3, <2>1, <4>1
    <3> QED
      BY <3>1
  <2> HIDE DEF rest
  <2> QED
    BY <1>1, <1>2, <2>1, <2>2, SeqEqual
<1>4. ASSUME p = rest PROVE q = a \o p
  <2>1. a \o p \in Seq(S) /\ Len(a \o p) = Len(q)
    BY <1>1, <1>2, <1>4, ConcatProperties
  <2>2. \A i \in 1..Len(q) : q[i] = (a \o p)[i]
    <3>1. ASSUME NEW i \in 1..Len(q) PROVE q[i] = (a \o p)[i]
      <4>1. CASE i <= Len(a)
        <5>1. SubSeq(a, 1, Len(a))[i] = a[i] /\ SubSeq(q, 1, Len(a))[i] = q[i]
          BY <1>1, <4>1
        <5>2. (a \o p)[i] = a[i]
          BY <1>1, <4>1, ConcatProperties
        <5> QED
          BY <1>1, <5>1, <5>2
      <4>2. CASE i > Len(a)
        <5>1. (a \o p)[i] = p[i - Len(a)]
          BY <1>1, <1>2, <1>4, <4>2, ConcatProperties
        <5>2. rest[i - Len(a)] = q[i]
          BY <1>1, <1>2, <4>2
        <5> QED
          BY <1>4, <5>1, <5>2
      <4>3. i <= Len(a) \/ i > Len(a)
        BY <1>1
      <4> QED
        BY <4>1, <4>2, <4>3, Zenon
    <3> QED
      BY <3>1
  <2> QED
    BY <2>1, <2>2, SeqEqual
<1> QED
  BY <1>3, <1>4

\* Of the keys of a ConfigMap a process sees the one that RefOf names, and no other.
LEMMA KeyIsRight ==
  ASSUME NEW w, NEW mount \in Mounts, NEW path \in List, NEW key \in List,
         IsOnTheWay(mount, path), mount.path = path => mount.subPath # <<>>,
         w.volumes[mount.name].items \in Seq(Items),
         \A i, k \in DOMAIN w.volumes[mount.name].items :
           w.volumes[mount.name].items[i].path = w.volumes[mount.name].items[k].path => i = k,
         RefOf(w, mount, path) # NoRef
  PROVE  /\ RefOf(w, mount, path).cm = w.volumes[mount.name].configMap
         /\ path \in ShownAt(mount, w.volumes[mount.name], key) <=> key = RefOf(w, mount, path).key
<1> DEFINE volume == w.volumes[mount.name]
<1> DEFINE rel == RelPath(mount, path)
<1> DEFINE listed == {i \in DOMAIN volume.items : volume.items[i].path = rel}
<1>1. mount.path \in List /\ mount.subPath \in List
  BY DEF Mounts
<1>2. \A p \in List : (IF mount.subPath = <<>> THEN path = mount.path \o p ELSE p = mount.subPath)
                       <=> p = rel
  <2>1. CASE mount.subPath # <<>>
    BY <2>1 DEF RelPath
  <2>2. CASE mount.subPath = <<>>
    <3>1. IsPrefix(mount.path, path) /\ IsStrictPrefix(mount.path, path)
      BY <2>2 DEF IsOnTheWay, IsStrictPrefix
    <3>2. rel = SubSeq(path, Len(mount.path) + 1, Len(path))
      BY <2>2, <3>1 DEF RelPath
    <3> HIDE DEF rel
    <3>3. \A p \in List : path = mount.path \o p <=> p = rel
      <4>1. mount.path \in Seq(STRING) /\ path \in Seq(STRING)
        BY <1>1 DEF List
      <4>2. \A p \in Seq(STRING) :
              path = mount.path \o p <=> p = SubSeq(path, Len(mount.path) + 1, Len(path))
        <5> DEFINE front == mount.path
        <5>1. front \in Seq(STRING) /\ path \in Seq(STRING) /\ IsPrefix(front, path)
          BY <3>1, <4>1
        <5> HIDE DEF front
        <5>2. \A p \in Seq(STRING) : path = front \o p <=> p = SubSeq(path, Len(front) + 1, Len(path))
          BY <5>1, RestOfPath, SMT
        <5> QED
          BY <5>2 DEF front
      <4> QED
        BY <3>2, <4>2, Zenon DEF List
    <3> QED
      BY <2>2, <3>3, Zenon
  <2> QED
    BY <2>1, <2>2
<1>3. InVolume(volume, key) \subseteq List
  <2>1. \A x \in ToSet(volume.items) : x.path \in List
    <3>1. \A x \in ToSet(volume.items) : x \in Items
      BY ElementsOf
    <3> QED
      BY <3>1 DEF Items
  <2> QED
    BY <2>1 DEF InVolume
<1>4. path \in ShownAt(mount, volume, key) <=> rel \in InVolume(volume, key)
  <2>1. CASE mount.subPath # <<>>
    <3>1. mount.path = path /\ rel = mount.subPath
      BY <2>1 DEF IsOnTheWay, RelPath
    <3> QED
      BY <2>1, <3>1 DEF ShownAt
  <2>2. CASE mount.subPath = <<>>
    <3>1. path \in ShownAt(mount, volume, key)
            <=> \E p \in InVolume(volume, key) : path = mount.path \o p
      BY <2>2 DEF ShownAt
    <3> HIDE DEF rel
    <3> QED
      BY <1>2, <1>3, <2>2, <3>1
  <2> QED
    BY <2>1, <2>2
<1>5. CASE volume.items = <<>>
  <2>1. RefOf(w, mount, path) = [cm |-> volume.configMap, key |-> rel]
    BY <1>5 DEF RefOf
  <2>2. InVolume(volume, key) = {key}
    BY <1>5 DEF InVolume
  <2> HIDE DEF rel, volume
  <2> QED
    BY <1>4, <2>1, <2>2 DEF volume
<1>6. CASE volume.items # <<>>
  <2>1. /\ listed # {}
        /\ RefOf(w, mount, path) = [cm |-> volume.configMap, key |-> First(volume.items, listed).key]
    BY <1>6 DEF RefOf
  <2>2. PICK i \in listed : First(volume.items, listed) = volume.items[i]
    <3>1. volume.items \in Seq(Items) /\ listed \subseteq DOMAIN volume.items
      OBVIOUS
    <3> HIDE DEF listed, volume
    <3> QED
      BY <2>1, <3>1, FirstIsThere
  <2>3. \A k \in listed : k = i
    BY <2>2
  <2>4. rel \in InVolume(volume, key) <=> \E k \in listed : volume.items[k].key = key
    <3>1. \A x : x \in ToSet(volume.items) <=> \E k \in DOMAIN volume.items : x = volume.items[k]
      BY DEF ToSet
    <3>2. rel \in InVolume(volume, key)
            <=> \E x \in ToSet(volume.items) : x.key = key /\ rel = x.path
      BY <1>6 DEF InVolume
    <3> HIDE DEF rel, volume
    <3> QED
      BY <3>1, <3>2
  <2>5. rel \in InVolume(volume, key) <=> key = volume.items[i].key
    <3> HIDE DEF rel, volume, listed
    <3> QED
      BY <2>2, <2>3, <2>4
  <2> HIDE DEF rel, listed
  <2> QED
    BY <1>4, <2>1, <2>2, <2>5
<1> QED
  BY <1>5, <1>6

\* The config file, when the ConfigMap and the key in it are there.
LEMMA FileIsRight ==
  ASSUME NEW o, NEW w, IsWorkload(w), ConfigRef(w) # NoRef,
         ConfigRef(w).cm \in DOMAIN cluster[o].configMaps,
         ConfigRef(w).key \in DOMAIN cluster[o].configMaps[ConfigRef(w).cm],
         \A key \in DOMAIN cluster[o].configMaps[ConfigRef(w).cm] : key \in List,
         NEW file, file = cluster[o].configMaps[ConfigRef(w).cm][ConfigRef(w).key]
  PROVE  /\ Shape(parseManagedNamespacesFromConfigMap(file))
         /\ Legible(w) => Covered(Manages(o, w), parseManagedNamespacesFromConfigMap(file))
<1> DEFINE c == Manager(w)
<1> DEFINE configs == FlagsAt(c, "--config")
<1> DEFINE a == First(c.args, configs)
<1> DEFINE m == parseManagedNamespacesFromConfigMap(file)
<1> DEFINE readable == file.valid /\ (file.selector = {} => ~file.namespacesAreOther)
<1>1. Shape(m)
  BY DEF parseManagedNamespacesFromConfigMap, Shape, All, Static, Selector
<1>2. SUFFICES ASSUME Legible(w) PROVE Covered(Manages(o, w), m)
  BY <1>1
<1>3. /\ ManagersAt(w) # {} /\ DetectedLocally(w) = All /\ configs # {}
      /\ ConfigRef(w) = findConfigMapForPath(w, c, a.value)
  BY DEF ConfigRef
<1>4. c.args \in Seq(Flags) /\ c.env \in Seq(EnvVars)
  <2>1. c \in Containers
    BY <1>3, FirstIsThere DEF IsWorkload, Manager, ManagersAt
  <2> QED
    BY <2>1 DEF Containers
<1>5. FlagsAt(c, "--namespaces") = {} /\ EnvAt(w, c) = {}
  <2>1. LocalNamespaces(w, c).all
    BY <1>3 DEF DetectedLocally, All
  <2> QED
    BY <2>1 DEF LocalNamespaces, Static
<1>6. /\ {x \in ToSet(c.args) : x.flag = "--namespaces"} = {}
      /\ {EnvValue(w, e) : e \in ToSet(c.env)} \ {<<"">>} = {}
  BY <1>5 DEF FlagsAt, EnvAt, ToSet
<1>7. {x \in ToSet(c.args) : x.flag = "--config"} = {a}
  <2>1. PICK i \in configs : a = c.args[i]
    BY <1>3, <1>4, FirstIsThere DEF FlagsAt
  <2>2. \A k \in configs : k = i
    BY <2>1, <1>2 DEF Legible, Repeated
  <2> QED
    BY <2>1, <2>2 DEF FlagsAt, ToSet
<1> DEFINE covering == {i \in DOMAIN c.mounts : Covers(c.mounts[i], a.value)}
<1> DEFINE onTheWay == {i \in DOMAIN c.mounts : IsOnTheWay(c.mounts[i], a.value)}
<1> DEFINE mount == First(c.mounts, covering)
<1>8. a \in ToSet(c.args) /\ a.flag = "--config" /\ a.value \in List
  <2>1. a \in ToSet(c.args) /\ a.flag = "--config"
    BY <1>7
  <2>2. a \in Flags
    BY <1>4, <2>1, ElementsOf
  <2> QED
    BY <2>1, <2>2 DEF Flags
<1>9. covering # {} /\ ConfigRef(w) = RefOf(w, mount, a.value)
  BY <1>3 DEF findConfigMapForPath
<1>10. c.mounts \in Seq(Mounts) /\ \E i \in DOMAIN w.containers : c = w.containers[i]
  <2>1. PICK i \in ManagersAt(w) : c = w.containers[i]
    BY <1>3, FirstIsThere DEF IsWorkload, Manager, ManagersAt
  <2>2. c \in Containers
    BY <1>3, FirstIsThere DEF IsWorkload, Manager, ManagersAt
  <2> QED
    BY <2>1, <2>2 DEF Containers, ManagersAt
<1>11. covering = onTheWay
  <2>1. ASSUME NEW i \in DOMAIN c.mounts
        PROVE  Covers(c.mounts[i], a.value) <=> IsOnTheWay(c.mounts[i], a.value)
    <3>1. c.mounts[i].path \in List
      <4>1. c.mounts[i] \in Mounts
        BY <1>10, ElementsOf
      <4> QED
        BY <4>1 DEF Mounts
    <3>2. IsPrefix(a.value, a.value)
      BY <1>8 DEF IsPrefix, List
    <3> QED
      BY <3>1, <3>2 DEF Covers, IsOnTheWay
  <2> QED
    BY <2>1
<1>12. mount \in Mounts /\ mount \in ToSet(c.mounts) /\ IsOnTheWay(mount, a.value)
  <2>1. PICK i \in covering : mount = c.mounts[i]
    BY <1>9, <1>10, FirstIsThere
  <2>2. mount \in Mounts
    BY <1>10, <2>1, ElementsOf
  <2>3. mount \in ToSet(c.mounts)
    BY <2>1 DEF ToSet
  <2> QED
    BY <1>11, <2>1, <2>2, <2>3
<1>13. Deepest(c, a.value) = {mount}
  <2>1. onTheWay # {} /\ mount = First(c.mounts, onTheWay)
    BY <1>9, <1>11
  <2> QED
    BY <1>2, <1>8, <2>1 DEF Legible, Nested
<1>14. Seen(o, w, mount, a.value) = {file}
  <2> DEFINE volume == w.volumes[mount.name]
  <2> DEFINE data == cluster[o].configMaps[ConfigRef(w).cm]
  <2>1. /\ mount.name \in DOMAIN w.volumes
        /\ a.value = mount.path => mount.subPath # <<>>
    BY <1>8, <1>10, <1>12 DEF IsWorkload, IsMounted
  <2>2. /\ volume.items \in Seq(Items)
        /\ \A i, k \in DOMAIN volume.items : volume.items[i].path = volume.items[k].path => i = k
    BY <2>1 DEF IsWorkload, IsMounted
  <2>3. ASSUME NEW key \in DOMAIN data
        PROVE  /\ ConfigRef(w).cm = volume.configMap
               /\ a.value \in ShownAt(mount, volume, key) <=> key = ConfigRef(w).key
    <3> HIDE DEF mount, a, c
    <3> QED
      BY <1>8, <1>9, <1>12, <2>1, <2>2, <2>3, KeyIsRight
  <2>4. /\ ConfigRef(w).cm = volume.configMap
        /\ {key \in DOMAIN data : a.value \in ShownAt(mount, volume, key)} = {ConfigRef(w).key}
    BY <2>3
  <2> HIDE DEF mount, a, c
  <2> QED
    BY <2>4 DEF Seen
<1>15. FilesOf(o, w, c) = IF readable THEN {file} ELSE {}
  <2> DEFINE paths == {x.value : x \in {y \in ToSet(c.args) : y.flag = "--config"}}
  <2> DEFINE files == UNION {UNION {Seen(o, w, x, path) : x \in Deepest(c, path)} : path \in paths}
  <2>1. paths = {a.value}
    BY <1>7
  <2>2. files = {file}
    <3> HIDE DEF mount, a, c, paths
    <3> QED
      BY <1>13, <1>14, <2>1
  <2>3. FilesOf(o, w, c) = {f \in files : f.valid /\ (f.selector = {} => ~f.namespacesAreOther)}
    BY DEF FilesOf
  <2> HIDE DEF files
  <2> QED
    BY <2>2, <2>3
<1>16. readable => Manages(o, w) = FileManages(file)
  BY <1>6, <1>15 DEF Manages
<1>17. CASE readable /\ file.selector # {}
  <2>1. m = Selector(file.selector)
    BY <1>17 DEF parseManagedNamespacesFromConfigMap
  <2>2. m.selector = file.selector
    BY <2>1 DEF Selector
  <2>3. Manages(o, w) = namespacesMatchingSelector(file.selector)
    BY <1>16, <1>17 DEF FileManages, namespacesMatchingSelector
  <2> HIDE DEF m
  <2> QED
    BY <1>17, <2>2, <2>3 DEF Covered
<1>18. CASE readable /\ file.selector = {} /\ splitCSV(file.namespaces) # {}
  <2>1. m = Static(splitCSV(file.namespaces))
    BY <1>18 DEF parseManagedNamespacesFromConfigMap
  <2>2. Manages(o, w) = splitCSV(file.namespaces)
    BY <1>16, <1>18 DEF FileManages, Named, splitCSV
  <2>3. m.selector = {} /\ m.static = splitCSV(file.namespaces)
    BY <2>1 DEF Static
  <2> HIDE DEF m
  <2> QED
    BY <2>2, <2>3 DEF Covered
<1>19. CASE ~readable \/ (file.selector = {} /\ splitCSV(file.namespaces) = {})
  <2>1. m = All
    BY <1>19 DEF parseManagedNamespacesFromConfigMap
  <2> QED
    BY <2>1 DEF Covered, All
<1> QED
  BY <1>17, <1>18, <1>19

-----------------------------------------------------------------------------
(***************************************************************************)
(* The invariant.                                                          *)
(***************************************************************************)
Requests == {"control-plane", "helm", "deployment", "configmap"}

Places ==
  /\ cluster \in [Operators -> Installs] /\ userVersion \in UserVersions
  /\ at \in Requests \cup {"next", "warn", "done"}
  /\ todo \subseteq Operators /\ cur \in Operators \cup {Nothing}
  /\ DOMAIN infos = IF at \in {"warn", "done"} THEN Operators ELSE Operators \ todo
  /\ at \in Requests => cur \in DOMAIN infos
  /\ at = "done" => todo = {}

\* What is known of an operator, also of one that is still being looked at.
InfoTypes ==
  \A o \in DOMAIN infos :
    /\ infos[o] = [version |-> infos[o].version, managed |-> infos[o].managed,
                   method |-> infos[o].method]
    /\ infos[o].version \in Versions \ {0}
    /\ infos[o].method \in {"helm", "yaml", "olm", "unknown"}
    /\ Shape(infos[o].managed)

InfosInv ==
  \A o \in DOMAIN infos : \A w \in Running(o) :
    /\ userVersion = NotGiven => w.runs <= infos[o].version
    /\ Legible(w) => Covered(Manages(o, w), infos[o].managed)

\* While a ConfigMap is asked for, work is the operator if there is one.
FileInv ==
  at = "configmap" =>
    ConfigRef(work) # NoRef /\ IsWorkload(work) /\ \A w \in Running(cur) : w = work

\* An operator that warnMissingNamespaces is past.
SaidInv ==
  at \in {"warn", "done"} =>
    \A o \in Operators \ todo : \A w \in {x \in Running(o) : Legible(x)} :
      \A n \in Manages(o, w) \ Collected : Told(o, n)

IndInv == Places /\ InfoTypes /\ InfosInv /\ FileInv /\ SaidInv

\* The cluster stays, and with it what its operators do.
LEMMA ClusterStays ==
  ASSUME cluster' = cluster
  PROVE  \A o : Running(o)' = Running(o) /\ \A w : Manages(o, w)' = Manages(o, w)
BY DEF Running, Manages, FilesOf, Seen

LEMMA NextKeepsCluster == ASSUME Next PROVE cluster' = cluster /\ userVersion' = userVersion
BY DEF Next, Detection, Warning, Start, RequestFails, ListControlPlane, ListHelm, GetDeployment,
   GetConfigMap, Ask, AllDetected, SayAll, CheckSelector, SelectorFails, CheckStatic, Warns,
   AllWarned

LEMMA InfosStay ==
  ASSUME InfoTypes, InfosInv, UNCHANGED <<cluster, userVersion, infos>>
  PROVE  InfoTypes' /\ InfosInv'
<1>1. InfoTypes'
  BY DEF InfoTypes
<1>2. InfosInv'
  BY ClusterStays DEF InfosInv
<1> QED
  BY <1>1, <1>2

\* The operator of a namespace is one of its workloads.
LEMMA RunningAreWorkloads ==
  ASSUME Places, NEW o \in Operators
  PROVE  /\ cluster[o].ssets \in Seq(ToSet(cluster[o].ssets))
         /\ \A w \in ToSet(cluster[o].ssets) \cup ({cluster[o].deployment} \ {Nothing}) :
              IsWorkload(w) /\ IsHonest(w)
         /\ \A w \in Running(o) : w.runs \in Versions
<1>1. IsInstall(cluster[o])
  BY Installable DEF Places
<1>2. \A w \in Running(o) : w \in ToSet(cluster[o].ssets) \cup ({cluster[o].deployment} \ {Nothing})
  BY DEF Running
<1> QED
  BY <1>1, <1>2 DEF IsInstall, IsWorkload

\* Of an operator that is not known yet everything is assumed.
LEMMA StartKeeps ==
  ASSUME IndInv, NEW o \in Operators, Start(o)
  PROVE  IndInv'
<1> DEFINE new == [version |-> UserVersion, managed |-> All, method |-> "unknown"]
<1>1. /\ at = "next" /\ at' = "control-plane" /\ o \in todo /\ todo' = todo \ {o} /\ cur' = o
      /\ infos' = [x \in DOMAIN infos \cup {o} |-> IF x = o THEN new ELSE infos[x]]
      /\ UNCHANGED <<cluster, userVersion, said>>
  BY DEF Start, Goto
<1>2. /\ DOMAIN infos' = DOMAIN infos \cup {o}
      /\ infos'[o] = new
      /\ \A x \in DOMAIN infos \ {o} : infos'[x] = infos[x]
  <2> HIDE DEF new
  <2> QED
    BY <1>1
<1>3. UserVersion \in Versions \ {0} /\ (userVersion = NotGiven => UserVersion = Fallback)
  BY FallbackIsMax DEF UserVersion, Versions, IndInv, Places
<1>4. Places'
  BY <1>1, <1>2 DEF IndInv, Places, Requests
<1>5. InfoTypes'
  <2>1. Shape(All)
    BY DEF Shape
  <2> QED
    BY <1>2, <1>3, <2>1 DEF IndInv, InfoTypes
<1>6. InfosInv'
  <2>1. \A w \in Running(o) : w.runs <= Fallback
    BY RunningAreWorkloads, FallbackIsMax DEF IndInv, Versions
  <2>2. \A w : Covered(Manages(o, w), All)
    BY DEF Covered, All
  <2> QED
    BY <1>1, <1>2, <1>3, <2>1, <2>2, ClusterStays DEF IndInv, InfosInv
<1> QED
  BY <1>1, <1>4, <1>5, <1>6 DEF IndInv, FileInv, SaidInv

\* A request that tells nothing.
LEMMA NothingLearnt ==
  ASSUME IndInv, at \in Requests, at' \in Requests \cup {"next"}, at' # "configmap",
         UNCHANGED <<cluster, userVersion, todo, cur, infos, said>>
  PROVE  IndInv'
<1>1. Places'
  BY DEF IndInv, Places, Requests
<1>2. InfoTypes' /\ InfosInv'
  BY InfosStay DEF IndInv
<1> QED
  BY <1>1, <1>2 DEF IndInv, FileInv, SaidInv, Requests

\* A StatefulSet or Deployment was found, and is the operator if there is one.
LEMMA DescribeKeeps ==
  ASSUME IndInv, at \in Requests, NEW w, IsWorkload(w), IsHonest(w),
         \A x \in Running(cur) : x = w,
         NEW v \in Versions \ {0}, w.runs <= v, Describe(w, v),
         UNCHANGED <<cluster, userVersion, todo, cur, said>>
  PROVE  IndInv'
<1>1. /\ at' \in {"next", "configmap"} /\ (at' = "configmap" => ConfigRef(w) # NoRef) /\ work' = w
      /\ DOMAIN infos' = DOMAIN infos
      /\ \A o \in DOMAIN infos : o # cur => infos'[o] = infos[o]
  BY DEF Describe, Goto
<1>2. /\ cur \in DOMAIN infos
      /\ infos'[cur] = [version |-> IF userVersion = NotGiven THEN v ELSE infos[cur].version,
                        managed |-> DetectedLocally(w), method |-> detectInstallMethod(w)]
  BY DEF Describe, IndInv, Places
<1>3. Shape(DetectedLocally(w))
  BY DEF DetectedLocally, LocalNamespaces, Shape, Static, All
<1>4. detectInstallMethod(w) \in {"helm", "yaml", "olm", "unknown"}
  BY DEF detectInstallMethod
<1>5. Legible(w) => Covered(Manages(cur, w), DetectedLocally(w))
  BY LocalIsRight
<1>6. Places'
  BY <1>1 DEF IndInv, Places, Requests
<1>7. InfoTypes'
  BY <1>1, <1>2, <1>3, <1>4 DEF IndInv, InfoTypes
<1>8. InfosInv'
  <2> SUFFICES ASSUME NEW o \in DOMAIN infos, NEW x \in Running(o)
               PROVE  /\ userVersion = NotGiven => x.runs <= infos'[o].version
                      /\ Legible(x) => Covered(Manages(o, x), infos'[o].managed)
    BY <1>1, ClusterStays DEF InfosInv
  <2>1. CASE o = cur
    BY <1>2, <1>5, <2>1
  <2>2. CASE o # cur
    BY <1>1, <2>2 DEF IndInv, InfosInv
  <2> QED
    BY <2>1, <2>2
<1>9. FileInv'
  BY <1>1, ClusterStays DEF FileInv
<1> QED
  BY <1>1, <1>6, <1>7, <1>8, <1>9 DEF IndInv, SaidInv

LEMMA ListsKeep ==
  ASSUME IndInv, ListControlPlane \/ ListHelm \/ GetDeployment
  PROVE  IndInv'
<1>1. at \in Requests /\ UNCHANGED <<cluster, userVersion, todo, cur, said>> /\ cur \in Operators
  BY DEF ListControlPlane, ListHelm, GetDeployment, Ask, Requests, IndInv, Places
<1> DEFINE there == ToSet(ssets) \cup ({cluster[cur].deployment} \ {Nothing})
<1>2. ssets \in Seq(ToSet(ssets)) /\ \A w \in there : IsWorkload(w) /\ IsHonest(w)
  BY <1>1, RunningAreWorkloads DEF IndInv, ssets
<1>3. ASSUME NEW w \in ToSet(ssets), {"control-plane", "eck-chart"} \cap w.labels # {},
             DescribeStatefulSet(w)
      PROVE  IndInv'
  <2>1. \A x \in Running(cur) : x = w
    BY <1>3 DEF Running, ssets
  <2> QED
    BY <1>1, <1>2, <1>3, <2>1, VersionIsHighEnough, DescribeKeeps DEF DescribeStatefulSet
<1>4. CASE ListControlPlane
  <2> DEFINE found == {i \in DOMAIN ssets : "control-plane" \in ssets[i].labels}
  <2>1. CASE \E i \in found : found = {i}
    <3>1. PICK i \in found : First(ssets, found) = ssets[i]
      BY <1>2, <2>1, FirstIsThere
    <3>2. DescribeStatefulSet(ssets[i])
      BY <1>4, <2>1, <3>1 DEF ListControlPlane
    <3>3. ssets[i] \in ToSet(ssets) /\ {"control-plane", "eck-chart"} \cap ssets[i].labels # {}
      BY <3>1 DEF ToSet
    <3> QED
      BY <1>3, <3>2, <3>3
  <2>2. CASE ~(\E i \in found : found = {i})
    BY <1>1, <1>4, <2>2, NothingLearnt DEF ListControlPlane, Goto, Requests
  <2> QED
    BY <2>1, <2>2
<1>5. CASE ListHelm
  <2> DEFINE found == {i \in DOMAIN ssets : {"managed-by-helm", "eck-chart"} \subseteq ssets[i].labels}
  <2>1. CASE found # {}
    <3>1. PICK i \in found : First(ssets, found) = ssets[i]
      BY <1>2, <2>1, FirstIsThere
    <3>2. DescribeStatefulSet(ssets[i])
      BY <1>5, <2>1, <3>1 DEF ListHelm
    <3>3. ssets[i] \in ToSet(ssets) /\ {"control-plane", "eck-chart"} \cap ssets[i].labels # {}
      BY <3>1 DEF ToSet
    <3> QED
      BY <1>3, <3>2, <3>3
  <2>2. CASE found = {}
    BY <1>1, <1>5, <2>2, NothingLearnt DEF ListHelm, Goto, Requests
  <2> QED
    BY <2>1, <2>2
<1>6. CASE GetDeployment
  <2> DEFINE w == cluster[cur].deployment
  <2>1. w # Nothing /\ Describe(w, versionFromDeployment(w))
    BY <1>6 DEF GetDeployment
  <2>2. \A x \in Running(cur) : x = w
    BY <2>1 DEF Running
  <2> QED
    BY <1>1, <1>2, <2>1, <2>2, VersionIsHighEnough, DescribeKeeps
<1> QED
  BY <1>4, <1>5, <1>6

LEMMA RequestFailsKeeps ==
  ASSUME IndInv, RequestFails
  PROVE  IndInv'
BY NothingLearnt DEF RequestFails, Ask, Goto, Requests

LEMMA GetConfigMapKeeps ==
  ASSUME IndInv, GetConfigMap
  PROVE  IndInv'
<1> DEFINE ref == ConfigRef(work)
<1> DEFINE cms == cluster[cur].configMaps
<1> DEFINE found == ref.cm \in DOMAIN cms /\ ref.key \in DOMAIN cms[ref.cm]
<1> DEFINE file == cms[ref.cm][ref.key]
<1>1. /\ at = "configmap" /\ at' = "next"
      /\ UNCHANGED <<cluster, userVersion, todo, cur, said, work>>
      /\ infos' = IF found THEN [infos EXCEPT ![cur].managed = parseManagedNamespacesFromConfigMap(file)]
                           ELSE infos
  BY DEF GetConfigMap, Ask, Goto
<1>2. CASE ~found
  <2>1. UNCHANGED infos
    BY <1>1, <1>2
  <2> QED
    BY <1>1, <2>1, NothingLearnt DEF Requests
<1>3. CASE found
  <2> DEFINE m == parseManagedNamespacesFromConfigMap(file)
  <2>1. ref # NoRef /\ IsWorkload(work) /\ \A w \in Running(cur) : w = work
    BY <1>1 DEF IndInv, FileInv
  <2>2. Shape(m) /\ (Legible(work) => Covered(Manages(cur, work), m))
    <3>1. cur \in Operators
      BY <1>1 DEF IndInv, Places, Requests
    <3>2. \A key \in DOMAIN cms[ref.cm] : key \in List
      BY <1>3, <3>1, Installable DEF IndInv, Places, IsInstall
    <3> QED
      BY <1>3, <2>1, <3>2, FileIsRight
  <2>3. /\ DOMAIN infos' = DOMAIN infos /\ cur \in DOMAIN infos
        /\ infos'[cur] = [infos[cur] EXCEPT !.managed = m]
        /\ \A o \in DOMAIN infos : o # cur => infos'[o] = infos[o]
    <3>1. cur \in DOMAIN infos
      BY <1>1 DEF IndInv, Places, Requests
    <3>2. infos' = [infos EXCEPT ![cur].managed = m]
      BY <1>1, <1>3
    <3> HIDE DEF m
    <3> QED
      BY <3>1, <3>2
  <2>4. infos'[cur] = [version |-> infos[cur].version, managed |-> m, method |-> infos[cur].method]
    <3>1. infos[cur] = [version |-> infos[cur].version, managed |-> infos[cur].managed,
                        method |-> infos[cur].method]
      BY <2>3 DEF IndInv, InfoTypes
    <3> HIDE DEF m
    <3> QED
      BY <2>3, <3>1
  <2> HIDE DEF m
  <2>5. Places'
    BY <1>1, <2>3 DEF IndInv, Places, Requests
  <2>6. InfoTypes'
    BY <2>2, <2>3, <2>4 DEF IndInv, InfoTypes
  <2>7. InfosInv'
    <3> SUFFICES ASSUME NEW o \in DOMAIN infos, NEW x \in Running(o)
                 PROVE  /\ userVersion = NotGiven => x.runs <= infos'[o].version
                        /\ Legible(x) => Covered(Manages(o, x), infos'[o].managed)
      BY <1>1, <2>3, ClusterStays DEF InfosInv
    <3>1. CASE o = cur
      BY <2>1, <2>2, <2>4, <3>1 DEF IndInv, InfosInv
    <3>2. CASE o # cur
      BY <2>3, <3>2 DEF IndInv, InfosInv
    <3> QED
      BY <3>1, <3>2
  <2> QED
    BY <1>1, <2>5, <2>6, <2>7 DEF IndInv, FileInv, SaidInv
<1> QED
  BY <1>2, <1>3

LEMMA AllDetectedKeeps ==
  ASSUME IndInv, AllDetected
  PROVE  IndInv'
<1>1. at = "next" /\ at' = "warn" /\ todo = {} /\ todo' = Operators
      /\ UNCHANGED <<cluster, userVersion, cur, work, infos, said>>
  BY DEF AllDetected, Goto
<1>2. Places'
  BY <1>1 DEF IndInv, Places, Requests
<1>3. InfoTypes' /\ InfosInv'
  BY <1>1, InfosStay DEF IndInv
<1>4. FileInv' /\ SaidInv'
  BY <1>1 DEF FileInv, SaidInv
<1> QED
  BY <1>2, <1>3, <1>4 DEF IndInv

\* What has to be said of an operator is said when the loop comes to it.
LEMMA SaysEnough ==
  ASSUME IndInv, NEW o \in Operators,
         SayAll(o) \/ CheckSelector(o) \/ SelectorFails(o) \/ CheckStatic(o),
         NEW w \in Running(o), Legible(w), NEW n \in Manages(o, w) \ Collected
  PROVE  Told(o, n)'
<1>1. at = "warn" /\ o \in DOMAIN infos
  BY DEF SayAll, CheckSelector, SelectorFails, CheckStatic, Warns, IndInv, Places
<1> DEFINE m == infos[o].managed
<1>2. Covered(Manages(o, w), m) /\ Shape(m)
  BY <1>1 DEF IndInv, InfosInv, InfoTypes
<1>3. CASE SayAll(o) \/ SelectorFails(o)
  <2>1. \E what \in {"all", "unknown"} : Say(o, what, {})
    BY <1>3 DEF SayAll, SelectorFails
  <2> QED
    BY <2>1 DEF Say, Told
<1>4. ASSUME NEW names, SayMissing(o, names), n \in names
      PROVE  Told(o, n)'
  <2>1. n \in names \ Collected
    BY <1>4
  <2> DEFINE s == [operator |-> o, what |-> "missing", names |-> names \ Collected]
  <2>2. s \in said'
    BY <1>4, <2>1 DEF SayMissing, Say
  <2>3. s.operator = o /\ n \in s.names
    BY <2>1
  <2> QED
    BY <2>2, <2>3 DEF Told
<1>5. CASE CheckSelector(o)
  <2>1. m.selector # {} /\ SayMissing(o, namespacesMatchingSelector(m.selector))
    BY <1>5 DEF CheckSelector
  <2>2. ~m.all
    BY <1>2, <2>1 DEF Shape, All, Static, Selector
  <2>3. n \in namespacesMatchingSelector(m.selector)
    BY <1>2, <2>1, <2>2 DEF Covered
  <2> QED
    BY <1>4, <2>1, <2>3
<1>6. CASE CheckStatic(o)
  <2>1. ~m.all /\ m.selector = {} /\ SayMissing(o, m.static)
    BY <1>6 DEF CheckStatic
  <2>2. n \in m.static
    BY <1>2, <2>1 DEF Covered
  <2> QED
    BY <1>4, <2>1, <2>2
<1> QED
  BY <1>3, <1>5, <1>6

LEMMA WarningKeeps ==
  ASSUME IndInv, NEW o \in Operators,
         SayAll(o) \/ CheckSelector(o) \/ SelectorFails(o) \/ CheckStatic(o)
  PROVE  IndInv'
<1>1. /\ at = "warn" /\ todo' = todo \ {o}
      /\ UNCHANGED <<cluster, userVersion, at, cur, work, infos>>
  BY DEF SayAll, CheckSelector, SelectorFails, CheckStatic, Warns
<1>2. said \subseteq said'
  BY DEF SayAll, CheckSelector, SelectorFails, CheckStatic, SayMissing, Say
<1>3. Places'
  BY <1>1 DEF IndInv, Places, Requests
<1>4. InfoTypes' /\ InfosInv'
  BY <1>1, InfosStay DEF IndInv
<1>5. FileInv'
  BY <1>1 DEF FileInv
<1>6. SaidInv'
  <2> SUFFICES ASSUME NEW x \in Operators \ todo', NEW w \in Running(x), Legible(w),
                      NEW n \in Manages(x, w) \ Collected
               PROVE  Told(x, n)'
    BY <1>1, ClusterStays DEF SaidInv
  <2>1. CASE x = o
    BY <2>1, SaysEnough
  <2>2. CASE x # o
    <3>1. x \in Operators \ todo
      BY <1>1, <2>2
    <3>2. Told(x, n)
      BY <1>1, <3>1 DEF IndInv, SaidInv
    <3> QED
      BY <1>2, <3>2 DEF Told
  <2> QED
    BY <2>1, <2>2
<1> QED
  BY <1>3, <1>4, <1>5, <1>6 DEF IndInv

LEMMA AllWarnedKeeps ==
  ASSUME IndInv, AllWarned
  PROVE  IndInv'
<1>1. at = "warn" /\ at' = "done" /\ todo = {}
      /\ UNCHANGED <<cluster, userVersion, todo, cur, work, infos, said>>
  BY DEF AllWarned, Goto
<1>2. Places'
  BY <1>1 DEF IndInv, Places, Requests
<1>3. InfoTypes' /\ InfosInv'
  BY <1>1, InfosStay DEF IndInv
<1>4. FileInv'
  BY <1>1 DEF FileInv
<1>5. SaidInv'
  BY <1>1, ClusterStays DEF IndInv, SaidInv, Told
<1> QED
  BY <1>2, <1>3, <1>4, <1>5 DEF IndInv

LEMMA UnchangedKeeps ==
  ASSUME IndInv, UNCHANGED vars
  PROVE  IndInv'
<1>1. UNCHANGED <<cluster, userVersion, at, todo, cur, work, infos, said>>
  BY DEF vars
<1>2. Places'
  BY <1>1 DEF IndInv, Places, Requests
<1>3. InfoTypes' /\ InfosInv'
  BY <1>1, InfosStay DEF IndInv
<1>4. FileInv'
  BY <1>1, ClusterStays DEF IndInv, FileInv
<1>5. SaidInv'
  BY <1>1, ClusterStays DEF IndInv, SaidInv, Told
<1> QED
  BY <1>2, <1>3, <1>4, <1>5 DEF IndInv

LEMMA InitHolds == Init => IndInv
BY DEF Init, IndInv, Places, InfoTypes, InfosInv, FileInv, SaidInv, Requests

LEMMA StepHolds == IndInv /\ [Next]_vars => IndInv'
<1> SUFFICES ASSUME IndInv, [Next]_vars PROVE IndInv'
  OBVIOUS
<1>1. ASSUME NEW o \in Operators, Start(o) PROVE IndInv'
  BY <1>1, StartKeeps
<1>2. CASE RequestFails
  BY <1>2, RequestFailsKeeps
<1>3. CASE ListControlPlane \/ ListHelm \/ GetDeployment
  BY <1>3, ListsKeep
<1>4. CASE GetConfigMap
  BY <1>4, GetConfigMapKeeps
<1>5. CASE AllDetected
  BY <1>5, AllDetectedKeeps
<1>6. CASE Warning
  BY <1>6, WarningKeeps DEF Warning
<1>7. CASE AllWarned
  BY <1>7, AllWarnedKeeps
<1>8. CASE UNCHANGED vars
  BY <1>8, UnchangedKeeps
<1> QED
  BY <1>1, <1>2, <1>3, <1>4, <1>5, <1>6, <1>7, <1>8 DEF Next, Detection

LEMMA Invariance == Spec => []IndInv
BY InitHolds, StepHolds, PTL DEF Spec

-----------------------------------------------------------------------------
(***************************************************************************)
(* The theorems.                                                           *)
(***************************************************************************)

\* All variables have their types, and at most one of All, Static and Selector is
\* set for an operator.
THEOREM TypeCorrect == Spec => []TypeOK
<1>1. IndInv => TypeOK
  <2> SUFFICES ASSUME IndInv PROVE TypeOK
    OBVIOUS
  <2>1. Versions \ {0} \subseteq Nat \ {0}
    BY FallbackIsMax DEF Versions
  <2> QED
    BY <2>1 DEF IndInv, Places, InfoTypes, FileInv, Requests, Shape, TypeOK
<1> QED
  BY <1>1, Invariance, PTL

\* detectManagedNamespaces and warnMissingNamespaces leave out no namespace that
\* an operator manages without a word, whatever is installed and whatever fails.
THEOREM NothingIsMissed == Spec => []NothingMissedSilently
<1>1. IndInv => NothingMissedSilently
  BY DEF IndInv, Places, SaidInv, NothingMissedSilently
<1> QED
  BY <1>1, Invariance, PTL

\* maxVersion is not older than any operator that runs, if no version was given.
THEOREM VersionsAreCovered == Spec => []VersionCoversAll
<1>1. IndInv => VersionCoversAll
  <2> SUFFICES ASSUME IndInv, at = "done", userVersion = NotGiven,
                      NEW o \in Operators, NEW w \in Running(o)
               PROVE  w.runs <= maxVersion
    BY DEF VersionCoversAll
  <2> DEFINE S == {infos[x].version : x \in DOMAIN infos}
  <2>1. o \in DOMAIN infos /\ w.runs <= infos[o].version
    BY DEF IndInv, Places, InfosInv
  <2>2. S \subseteq 0..Fallback /\ infos[o].version \in S /\ Fallback \in Nat
    BY <2>1, FallbackIsMax DEF IndInv, InfoTypes, Versions
  <2>3. maxVersion = Max(S)
    BY DEF maxVersion
  <2>4. w.runs \in Versions
    BY RunningAreWorkloads DEF IndInv
  <2>5. Max(S) \in S /\ infos[o].version <= Max(S)
    <3> HIDE DEF S
    <3> QED
      BY <2>2, HasGreatest
  <2>6. ASSUME NEW r \in 0..Fallback, NEW v \in 0..Fallback, NEW max \in 0..Fallback,
               r <= v, v <= max
        PROVE  r <= max
    BY <2>2, <2>6
  <2>7. Max(S) \in 0..Fallback
    <3> HIDE DEF S
    <3> QED
      BY <2>2, <2>5
  <2>8. infos[o].version \in 0..Fallback /\ w.runs \in 0..Fallback
    BY <2>2, <2>4 DEF Versions
  <2>9. w.runs <= Max(S)
    <3> HIDE DEF S
    <3> QED
      BY <2>1, <2>5, <2>6, <2>7, <2>8
  <2> QED
    BY <2>3, <2>9
<1> QED
  BY <1>1, Invariance, PTL
=============================================================================
