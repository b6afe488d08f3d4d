----------------------------- MODULE MCOperator -----------------------------
(***************************************************************************)
(* Operator with two operator namespaces, of which each holds any of the   *)
(* installations that the tests of internal/operator_test.go and           *)
(* version_test.go set up, and some they do not. The run collects from a   *)
(* and leaves b and c out; c has a label of its own.                       *)
(***************************************************************************)
EXTENDS Operator, TLC

MCNamespaceLabels == [a |-> {}, b |-> {}, c |-> {"team"}]
MCUserVersions == {NotGiven, 0, 1}

Container(name, eckImage, tag) ==
  [name |-> name, eckImage |-> eckImage, tag |-> tag, args |-> <<>>, env |-> <<>>, mounts |-> <<>>]
Eck == Container("manager", TRUE, 2)
Workload(containers) ==
  [labels |-> {"control-plane"}, versionLabel |-> 0, olmVersion |-> 0, runs |-> 2,
   containers |-> containers, volumes |-> <<>>, annotations |-> <<>>]

NoInstall == [ssets |-> <<>>, deployment |-> Nothing, configMaps |-> <<>>]
ByStatefulSet(w) == [NoInstall EXCEPT !.ssets = <<w>>]
ByDeployment(w)  == [NoInstall EXCEPT !.deployment = [w EXCEPT !.labels = {"olm.owner"}]]

-----------------------------------------------------------------------------
\* Where the version comes from.
Plain == Workload(<<Eck>>)
Helm  == [Plain EXCEPT !.labels = {"managed-by-helm", "eck-chart"}]
Sidecar == Container("proxy", FALSE, 1)

Versioned ==
  {NoInstall,
   ByStatefulSet(Plain),
   ByStatefulSet([Plain EXCEPT !.versionLabel = 2]),
   ByStatefulSet(Workload(<<Sidecar, Eck>>)),
   ByStatefulSet(Workload(<<Container("manager", TRUE, 0)>>)),
   ByStatefulSet(Workload(<<Sidecar>>)),
   ByStatefulSet(Helm),
   ByDeployment(Plain),
   ByDeployment([Plain EXCEPT !.olmVersion = 2]),
   \* two operators, and another StatefulSet of Helm's before the operator
   [NoInstall EXCEPT !.ssets = <<Plain, [Plain EXCEPT !.versionLabel = 2]>>],
   [NoInstall EXCEPT !.ssets = <<[Plain EXCEPT !.labels = {"managed-by-helm"}], Helm>>]}

-----------------------------------------------------------------------------
\* Where the namespaces come from.
Flag(name, value) == [flag |-> name, value |-> value]
Args(args) == Workload(<<[Eck EXCEPT !.args = args]>>)
Env(value, annotation, annotations) ==
  [Workload(<<[Eck EXCEPT !.env = <<[value |-> value, annotation |-> annotation]>>]>>)
     EXCEPT !.annotations = annotations]
FromAnnotation(annotations) == ByDeployment(Env(<<"">>, "olm.targetNamespaces", annotations))

FromProcess ==
  {ByStatefulSet(Args(args)) : args \in
     {<<Flag("--namespaces", <<"a">>)>>,
      <<Flag("--namespaces", <<"a">>), Flag("--namespaces", <<"b", "", "c">>)>>,
      <<Flag("--namespaces", <<"">>)>>}}
  \cup {ByStatefulSet(Env(<<"a", "c">>, "none", <<>>)),
        FromAnnotation("olm.targetNamespaces" :> <<"b">>),
        FromAnnotation("olm.targetNamespaces" :> <<"">>),
        FromAnnotation(<<>>)}

-----------------------------------------------------------------------------
\* The config file: /conf/eck.yaml, from a ConfigMap or from something else.
EckYaml == <<"conf", "eck.yaml">>
Mount(path, subPath) == [name |-> "v", path |-> path, subPath |-> subPath]
Volume(configMap, items) == [configMap |-> configMap, items |-> items]
Item(path, key) == [path |-> <<path>>, key |-> <<key>>]

Configured(mounts, volumes, args) ==
  [Workload(<<[Eck EXCEPT !.args = args \o <<Flag("--config", EckYaml)>>, !.mounts = mounts]>>)
     EXCEPT !.volumes = volumes]

File(namespaces) ==
  [valid |-> TRUE, selector |-> {}, namespaces |-> namespaces, namespacesAreOther |-> FALSE]
WithData(data, w) == [ByStatefulSet(w) EXCEPT !.configMaps = "cm" :> data]

\* Beside the file, other keys hold files that restrict the operator to a: to read
\* one of those is to miss b and c.
Keys == {<<"eck.yaml">>, <<"k">>, <<"o">>, <<"other">>}
WithFile(key, file, w) == WithData(<<key>> :> file @@ [k \in Keys |-> File(<<"a">>)], w)

Dir == <<Mount(<<"conf">>, <<>>)>>
OfConfigMap == "v" :> Volume("cm", <<>>)
Simple(file) == WithFile("eck.yaml", file, Configured(Dir, OfConfigMap, <<>>))
BC == File(<<"b", "c">>)

\* A Secret in the directory above, and the ConfigMap in the one below.
TwoMounts == <<[Mount(<<"conf">>, <<>>) EXCEPT !.name = "secret"], Mount(EckYaml, <<"eck.yaml">>)>>

FromFile ==
  {Simple(file) : file \in
     {BC, File(<<"">>), File(<<"a">>),
      [File(<<"a">>) EXCEPT !.selector = {"team"}],
      [File(<<"">>) EXCEPT !.valid = FALSE],
      [File(<<"">>) EXCEPT !.namespacesAreOther = TRUE]}}
  \cup
  {WithFile("k", BC, w) : w \in
     {Configured(Dir, "v" :> Volume("cm", <<Item("other", "o"), Item("eck.yaml", "k")>>), <<>>),
      Configured(Dir, "v" :> Volume("cm", <<Item("other", "o")>>), <<>>),
      Configured(Dir, "v" :> Volume("missing", <<>>), <<>>),
      Configured(<<Mount(EckYaml, <<"k">>)>>, OfConfigMap, <<>>),
      Configured(Dir, "v" :> Volume(Nothing, <<>>), <<>>),
      Configured(Dir, OfConfigMap, <<Flag("--namespaces", <<"a">>)>>),
      Configured(TwoMounts, OfConfigMap @@ "secret" :> Volume(Nothing, <<>>), <<>>)}}

  \cup
  {WithData(<<"k">> :> BC, Configured(Dir, OfConfigMap, <<>>)),
   WithFile("eck.yaml", BC, Configured(<<Mount(<<"conf", "other">>, <<"k">>)>>, OfConfigMap, <<>>)),
   WithFile("eck.yaml", BC, Configured(<<Mount(<<"etc">>, <<>>), Mount(EckYaml, <<"eck.yaml">>)>>,
                                       OfConfigMap, <<>>))}

MCInstalls == Versioned \cup FromProcess \cup FromFile
=============================================================================
