----------------------------- MODULE MCDiagRun -----------------------------
(***************************************************************************)
(* DiagRun with a namespace w of three resources and their Pods, whose     *)
(* types differ in the names of the CRD and of the labels, and two         *)
(* operators: one in a namespace of its own, labelled as by the YAML       *)
(* manifests, and one in w, labelled as by Helm.                           *)
(***************************************************************************)
EXTENDS DiagRun, TLC

\* The objects do not depend on what the filters are asked about.
F == INSTANCE Filters WITH LabelSets <- {}, Names <- {}

OwnedBy(t, name) == F!buildSelectorForTypeFilter(t, name)
Resource(t, name) == {[ns |-> "w", kind |-> F!crdName(t), name |-> name, labels |-> {}],
                      [ns |-> "w", kind |-> "pod", name |-> "pod", labels |-> OwnedBy(t, name)]}

YamlLabel == {<<"", "control-plane", "elastic-operator">>}
HelmLabel == {<<"app.kubernetes.io", "name", "elastic-operator">>}
OperatorPod(n, labels) == [ns |-> n, kind |-> "pod", name |-> "operator", labels |-> labels]

MCObjects == Resource("elasticsearch", "x") \cup Resource("autoops-agent", "x")
             \cup Resource("agent", "y")
             \cup {OperatorPod("o1", YamlLabel), OperatorPod("w", HelmLabel)}
MCOperatorLabels == [o1 |-> YamlLabel, w |-> HelmLabel]
MCTypeFilters == {<<>>, "agent" :> "y",
                  "autoops-agent" :> "x" @@ "elasticsearch" :> "y"}
MCLogFilters == {{}, {{F!TypeLabel("elasticsearch")}}}
=============================================================================
