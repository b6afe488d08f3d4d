------------------------------ MODULE Filters ------------------------------
(***************************************************************************)
(* The filters of internal/filters/filters.go. A label is the prefix of    *)
(* its key, the name in the key and the value, the labels of an object a   *)
(* set of them, and a selector the set of those it requires. A filter is   *)
(* what its three methods say: whether it is Empty, which labels it        *)
(* Matches, and which <<name, type>> it Contains.                          *)
(***************************************************************************)
CONSTANTS
  LabelSets,  \* the sets of labels that Matches may be asked about
  Names       \* the names that Contains may be asked about

ValidTypes == {"agent", "apm", "beat", "elasticsearch", "enterprisesearch", "kibana", "maps",
               "logstash", "package-registry", "autoops-agent", "stackconfigpolicy"}

(***************************************************************************)
(* resourceDescriptors: what differs from the filter type itself.          *)
(***************************************************************************)
crdName(t) ==
  CASE t = "apm"              -> "apmserver"
    [] t = "maps"             -> "elasticmapsserver"
    [] t = "package-registry" -> "packageregistry"
    [] t = "autoops-agent"    -> "autoopsagentpolicy"
    [] OTHER                  -> t

labelPrefix(t) ==
  CASE t = "package-registry" -> "packageregistry"
    [] t = "autoops-agent"    -> "autoops"
    [] OTHER                  -> t

commonType(t) ==
  CASE t = "apm"              -> "apm-server"
    [] t = "enterprisesearch" -> "enterprise-search"
    [] OTHER                  -> t

nameAttr(t) ==
  CASE t = "elasticsearch" -> "cluster-name"
    [] t = "autoops-agent" -> "policy-name"
    [] OTHER               -> "name"

\* A type the table does not know is returned as it is.
FilterTypeFromCRDName(crd) ==
  IF \E t \in ValidTypes : crdName(t) = crd
  THEN CHOOSE t \in ValidTypes : crdName(t) = crd
  ELSE crd

TypeLabel(common) == <<"common", "type", common>>
buildSelectorForTypeFilter(typ, name) ==
  {TypeLabel(commonType(typ)), <<labelPrefix(typ), nameAttr(typ), name>>}

SelectorMatches(selector, lbls) == selector \subseteq lbls

-----------------------------------------------------------------------------
(***************************************************************************)
(* The implementations of Filters.                                         *)
(***************************************************************************)
NamedTypes == Names \X ValidTypes

\* Of a map of types to names; a type has at most one.
TypeFilters(f) ==
  LET empty == DOMAIN f = {} IN
  [Empty    |-> empty,
   Matches  |-> [l \in LabelSets |->
                  empty \/ \E t \in DOMAIN f : SelectorMatches(buildSelectorForTypeFilter(t, f[t]), l)],
   Contains |-> [n \in NamedTypes |-> empty \/ (n[2] \in DOMAIN f /\ f[n[2]] = n[1])]]

\* Mistake: it contains everything.
LabelFilterOpen(selectors) ==
  [Empty    |-> selectors = {},
   Matches  |-> [l \in LabelSets |-> selectors = {} \/ \E s \in selectors : SelectorMatches(s, l)],
   Contains |-> [n \in NamedTypes |-> TRUE]]

\* Of a set of selectors. It contains nothing, even when it is empty.
LabelFilter(selectors) ==
  [Empty    |-> selectors = {},
   Matches  |-> [l \in LabelSets |-> selectors = {} \/ \E s \in selectors : SelectorMatches(s, l)],
   Contains |-> [n \in NamedTypes |-> FALSE]]

EmptyFilter == TypeFilters(<<>>)

\* No selectors at all make the empty type filters.
NewLabelFilter(selectors) == IF selectors = {} THEN EmptyFilter ELSE LabelFilter(selectors)

\* Empty as soon as one alternative is, and then everything matches.
Or(fs) ==
  LET empty == fs = {} \/ \E f \in fs : f.Empty IN
  [Empty    |-> empty,
   Matches  |-> [l \in LabelSets |-> empty \/ \E f \in fs : f.Matches[l]],
   Contains |-> [n \in NamedTypes |-> empty \/ \E f \in fs : f.Contains[n]]]

And(fs) ==
  [Empty    |-> \A f \in fs : f.Empty,
   Matches  |-> [l \in LabelSets |-> \A f \in fs : f.Matches[l]],
   Contains |-> [n \in NamedTypes |-> \A f \in fs : f.Contains[n]]]
=============================================================================
