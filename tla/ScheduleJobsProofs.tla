------------------------- MODULE ScheduleJobsProofs -------------------------
(***************************************************************************)
(* Proofs about ScheduleJobs, for any resources of the three types.        *)
(***************************************************************************)
EXTENDS ScheduleJobs, TLAPS

\* A step of a visit changes what is known of the current resource only.
OnlyCur ==
  /\ UNCHANGED <<types, listed>>
  /\ \A r \in Resources \ {cur} :
       /\ mounts'[r] = mounts[r] /\ pod'[r] = pod[r] /\ keystore'[r] = keystore[r]
       /\ fault'[r] = fault[r] /\ (r \in reported' <=> r \in reported)
       /\ (r \in registered' <=> r \in registered) /\ (r \in skipped' <=> r \in skipped)

\* Initially nothing was visited and nothing of this run exists.
LEMMA InitInv == Init => IndInv
<1> SUFFICES ASSUME Init PROVE IndInv
  OBVIOUS
<1>1. /\ types = <<Elasticsearch, Kibana, Logstash>>
      /\ types \in Seq(SUBSET Resources) /\ DOMAIN types = 1..3
  BY DEF Init, SupportedTypes, Resources
<1>2. TypeOK
  BY <1>1, NoneIsNoResource DEF Init, TypeOK, PC, Visiting, Kinds
<1>3. Pending = Resources
  <2>1. types[1] = Elasticsearch /\ types[2] = Kibana /\ types[3] = Logstash
    BY <1>1
  <2>2. 1 \in DOMAIN types /\ 2 \in DOMAIN types /\ 3 \in DOMAIN types
    BY <1>1
  <2>3. \A i \in DOMAIN types : i = 1 \/ i = 2 \/ i = 3
    BY <1>1
  <2>4. \A r : r \in Pending <=> \E i \in DOMAIN types : r \in types[i]
    BY DEF Init, Pending
  <2>5. \A r : r \in Pending <=> r \in Resources
    BY <2>1, <2>2, <2>3, <2>4 DEF Resources
  <2> QED
    BY <2>5
<1>4. VisitedOnce
  <2>1. \A i, j \in DOMAIN types : i # j => types[i] \cap types[j] = {}
    BY <1>1, OneTypeEach
  <2> QED
    BY <1>3, <2>1, NoneIsNoResource DEF Init, VisitedOnce
<1>5. PendingUntouched
  <2>1. \A r \in Resources : pod[r] # "fresh" /\ keystore[r] # "fresh" /\ ~mounts[r]
    BY DEF Init
  <2> QED
    BY <1>3, <2>1 DEF PendingUntouched, Untouched
<1>6. Settled = {} /\ registered = {} /\ ~Visiting
  BY <1>3 DEF Settled, Visiting, Init
<1> QED
  BY <1>2, <1>4, <1>5, <1>6 DEF IndInv

-----------------------------------------------------------------------------
(***************************************************************************)
(* The loops over types and resources.                                     *)
(***************************************************************************)

\* What is pending stays so when the next type is listed.
LEMMA ListedNext ==
  ASSUME IndInv, ListType
  PROVE  Pending' = Pending /\ VisitedOnce' /\ types' \in Seq(SUBSET Resources) /\ listed' \subseteq Resources
<1>1. /\ types \in Seq(SUBSET Resources) /\ types # <<>> /\ listed = {}
      /\ listed' = Head(types) /\ types' = Tail(types) /\ cur' = cur /\ pc' = "visit"
  BY DEF IndInv, TypeOK, VisitedOnce, ListType, Goto
<1>2. /\ DOMAIN types = 1..Len(types) /\ Len(types) \in Nat /\ Len(types) >= 1
      /\ DOMAIN types' = 1..(Len(types) - 1)
      /\ \A i \in DOMAIN types' : types'[i] = types[i + 1]
      /\ listed' = types[1]
      /\ types' \in Seq(SUBSET Resources) /\ types[1] \in SUBSET Resources
  BY <1>1
<1>3. \A i \in DOMAIN types' : i + 1 \in DOMAIN types /\ i + 1 # 1
  BY <1>2
<1>4. \A i \in DOMAIN types : i = 1 \/ (i - 1 \in DOMAIN types' /\ i = (i - 1) + 1)
  BY <1>2
<1>5. 1 \in DOMAIN types
  BY <1>2
<1>6. \A r : r \in Pending <=> \E i \in DOMAIN types : r \in types[i]
  BY <1>1 DEF Pending
<1>7. \A r : r \in Pending' <=> r \in types[1] \/ \E i \in DOMAIN types' : r \in types'[i]
  BY <1>2 DEF Pending
<1>8. \A r : r \in Pending' <=> r \in Pending
  <2>1. ASSUME NEW r, r \in Pending PROVE r \in Pending'
    <3>1. PICK i \in DOMAIN types : r \in types[i]
      BY <2>1, <1>6
    <3>2. CASE i = 1
      BY <3>1, <3>2, <1>7
    <3>3. CASE i # 1
      <4>1. i - 1 \in DOMAIN types' /\ types'[i - 1] = types[i]
        BY <3>3, <1>4, <1>2
      <4> QED
        BY <4>1, <3>1, <1>7
    <3> QED
      BY <3>2, <3>3
  <2>2. ASSUME NEW r, r \in Pending' PROVE r \in Pending
    <3>1. CASE r \in types[1]
      BY <3>1, <1>5, <1>6
    <3>2. CASE \E i \in DOMAIN types' : r \in types'[i]
      <4>1. PICK i \in DOMAIN types' : r \in types'[i]
        BY <3>2
      <4>2. i + 1 \in DOMAIN types /\ r \in types[i + 1]
        BY <4>1, <1>2, <1>3
      <4> QED
        BY <4>2, <1>6
    <3> QED
      BY <2>2, <3>1, <3>2, <1>7
  <2> QED
    BY <2>1, <2>2
<1>9. Pending' = Pending
  BY <1>8
<1>10. VisitedOnce'
  <2>1. \A i, j \in DOMAIN types : i # j => types[i] \cap types[j] = {}
    BY DEF IndInv, VisitedOnce
  <2>2. ASSUME NEW i \in DOMAIN types', NEW j \in DOMAIN types', i # j
        PROVE  types'[i] \cap types'[j] = {}
    <3>1. i + 1 \in DOMAIN types /\ j + 1 \in DOMAIN types /\ i + 1 # j + 1
      BY <2>2, <1>2, <1>3
    <3> QED
      BY <3>1, <2>1, <1>2
  <2>3. ASSUME NEW i \in DOMAIN types' PROVE types'[i] \cap listed' = {}
    BY <2>1, <1>2, <1>3, <1>5
  <2>4. cur' \notin Pending'
    BY <1>1, <1>9 DEF IndInv, VisitedOnce
  <2> QED
    BY <1>1, <2>2, <2>3, <2>4 DEF VisitedOnce
<1> QED
  BY <1>1, <1>2, <1>9, <1>10

\* A visit takes its resource out of what is pending.
LEMMA VisitedNext ==
  ASSUME IndInv, NEW r \in Resources, Visit(r)
  PROVE  Pending' = Pending \ {r} /\ r \in Pending /\ VisitedOnce'
<1>1. /\ r \in listed /\ listed' = listed \ {r} /\ types' = types /\ cur' = r /\ pc' = "info"
  BY DEF Visit, Goto
<1>2. \A i \in DOMAIN types : r \notin types[i]
  BY <1>1 DEF IndInv, VisitedOnce
<1>3. \A s : s \in Pending <=> s \in listed \/ \E i \in DOMAIN types : s \in types[i]
  BY DEF Pending
<1>4. \A s : s \in Pending' <=> s \in listed \ {r} \/ \E i \in DOMAIN types : s \in types[i]
  BY <1>1 DEF Pending
<1>5. \A s : s \in Pending' <=> s \in Pending /\ s # r
  BY <1>1, <1>2, <1>3, <1>4
<1>6. Pending' = Pending \ {r} /\ r \in Pending
  BY <1>5, <1>1, <1>3
<1> QED
  BY <1>1, <1>6 DEF IndInv, VisitedOnce

\* The loops keep the invariant.
LEMMA ListInv == IndInv /\ ListStep => IndInv'
<1> SUFFICES ASSUME IndInv, ListStep PROVE IndInv'
  OBVIOUS
<1> USE NoneIsNoResource DEF loopVars, localVars, clusterVars, resultVars, errorVars, Goto
<1>1. CASE ListType
  <2>1. Pending' = Pending /\ VisitedOnce' /\ types' \in Seq(SUBSET Resources) /\ listed' \subseteq Resources
    BY <1>1, ListedNext
  <2>2. TypeOK' /\ ~Visiting' /\ ~Visiting
    BY <1>1, <2>1 DEF ListType, IndInv, TypeOK, PC, Visiting
  <2>3. Settled' = Settled
    BY <1>1, <2>1 DEF ListType, Settled
  <2> QED
    BY <1>1, <2>1, <2>2, <2>3 DEF ListType, IndInv, PendingUntouched, Untouched, WellSettled
<1>2. ASSUME NEW r \in Resources, Visit(r) PROVE IndInv'
  <2>1. Pending' = Pending \ {r} /\ r \in Pending /\ VisitedOnce'
    BY <1>2, VisitedNext
  <2>2. TypeOK' /\ cur = None /\ r # None
    BY <1>2 DEF Visit, IndInv, TypeOK, PC, Visiting
  <2>3. Settled' = Settled /\ r \notin Settled
    BY <1>2, <2>1, <2>2 DEF Visit, Settled
  <2>4. MidVisit'
    BY <1>2, <2>1 DEF Visit, IndInv, PendingUntouched, Untouched, MidVisit
  <2>5. \A s \in Settled' : WellSettled(s)'
    BY <1>2, <2>3 DEF Visit, IndInv, WellSettled
  <2>6. PendingUntouched'
    BY <1>2, <2>1 DEF Visit, IndInv, PendingUntouched, Untouched
  <2> QED
    BY <1>2, <2>1, <2>2, <2>3, <2>4, <2>5, <2>6 DEF Visit, IndInv
<1>3. CASE ListFails \/ TypeDone \/ Finish
  <2>1. /\ UNCHANGED <<loopVars, localVars, clusterVars, resultVars, errorVars>>
        /\ ~Visiting /\ ~Visiting' /\ pc' \in PC /\ (pc' = "list" => listed = {})
    BY <1>3 DEF ListFails, TypeDone, Finish, Visiting, PC
  <2>2. TypeOK'
    BY <2>1 DEF IndInv, TypeOK, Visiting
  <2>3. Pending' = Pending /\ Settled' = Settled
    BY <2>1 DEF Pending, Settled
  <2>4. VisitedOnce'
    BY <2>1, <2>3 DEF IndInv, VisitedOnce
  <2> QED
    BY <2>1, <2>2, <2>3, <2>4 DEF IndInv, PendingUntouched, Untouched, WellSettled
<1> QED
  BY <1>1, <1>2, <1>3 DEF ListStep

-----------------------------------------------------------------------------
(***************************************************************************)
(* The visit of a resource.                                                *)
(***************************************************************************)

\* Steps of a visit keep the types.
LEMMA VisitTypeOK == TypeOK /\ (InfoStep \/ KeystoreStep \/ PodStep) => TypeOK'
<1> SUFFICES ASSUME TypeOK, InfoStep \/ KeystoreStep \/ PodStep PROVE TypeOK'
  OBVIOUS
<1> USE NoneIsNoResource DEF TypeOK, PC, Visiting, Kinds, loopVars, localVars, clusterVars,
        resultVars, errorVars, Goto, Leave, Record, Deleted, Created
<1>1. CASE InfoStep
  <2>1. CASE ReadInfo
    BY <2>1 DEF ReadInfo
  <2>4. CASE NoReference
    BY <2>4 DEF NoReference
  <2>5. CASE InfoUnreadable
    BY <2>5 DEF InfoUnreadable
  <2>2. CASE FilterOut \/ FilterIn
    BY <2>2 DEF FilterOut, FilterIn
  <2>3. CASE CredentialsFound \/ CredentialsMissing
    BY <2>3 DEF CredentialsFound, CredentialsMissing
  <2> QED
    BY <1>1, <2>1, <2>2, <2>3, <2>4, <2>5 DEF InfoStep
<1>2. CASE KeystoreStep
  <2>1. CASE NoClientCertificate \/ CertificateUnusable \/ CertificateFound
    BY <2>1 DEF NoClientCertificate, CertificateUnusable, CertificateFound
  <2>2. CASE ReplaceKeystore \/ CreateKeystore \/ CleanUpKeystore
    BY <2>2 DEF ReplaceKeystore, CreateKeystore, CleanUpKeystore
  <2>3. ASSUME NEW o \in Failures, ReplaceKeystoreFails(o) \/ CreateKeystoreFails(o) \/ CleanUpKeystoreFails(o)
        PROVE  TypeOK'
    BY <2>3 DEF ReplaceKeystoreFails, CreateKeystoreFails, CleanUpKeystoreFails
  <2> QED
    BY <1>2, <2>1, <2>2, <2>3 DEF KeystoreStep
<1>3. CASE PodStep
  <2>1. CASE RenderPod \/ RenderFails \/ DeleteStalePod
    BY <2>1 DEF RenderPod, RenderFails, DeleteStalePod
  <2>2. CASE CreatePod \/ Register
    BY <2>2 DEF CreatePod, Register
  <2>3. ASSUME NEW o \in Failures, DeleteStalePodFails(o) \/ CreatePodFails(o)
        PROVE  TypeOK'
    BY <2>3 DEF DeleteStalePodFails, CreatePodFails
  <2> QED
    BY <1>3, <2>1, <2>2, <2>3 DEF PodStep
<1> QED
  BY <1>1, <1>2, <1>3

\* A visit does not touch what is pending or settled.
LEMMA VisitFrame ==
  ASSUME IndInv, Visiting, OnlyCur, pc' # "list", cur' \in {cur, None}
  PROVE  /\ Pending' = Pending /\ VisitedOnce' /\ PendingUntouched'
         /\ \A r \in Settled : WellSettled(r)'
<1> USE DEF OnlyCur
<1>1. Pending' = Pending
  BY DEF Pending
<1>2. Pending \subseteq Resources
  <2>1. /\ types \in Seq(SUBSET Resources) /\ listed \subseteq Resources
    BY DEF IndInv, TypeOK
  <2>2. \A i \in DOMAIN types : types[i] \subseteq Resources
    BY <2>1
  <2> QED
    BY <2>1, <2>2 DEF Pending
<1>3. None \notin Pending
  BY <1>2, NoneIsNoResource
<1>4. VisitedOnce'
  BY <1>1, <1>3 DEF IndInv, VisitedOnce
<1>5. PendingUntouched'
  BY <1>1, <1>2 DEF IndInv, VisitedOnce, PendingUntouched, Untouched
<1>6. \A r \in Settled : r \in Resources \ {cur}
  BY DEF Settled
<1>7. \A r \in Settled : WellSettled(r)'
  BY <1>6 DEF IndInv, WellSettled
<1> QED
  BY <1>1, <1>4, <1>5, <1>7

\* A step within a visit has to keep what holds in the middle of it.
LEMMA Stays ==
  ASSUME IndInv, Visiting, OnlyCur, TypeOK', Visiting', cur' = cur, registered' = registered, MidVisit'
  PROVE  IndInv'
<1>1. pc' # "list"
  BY DEF Visiting
<1>2. /\ Pending' = Pending /\ VisitedOnce' /\ PendingUntouched'
      /\ \A r \in Settled : WellSettled(r)'
  BY <1>1, VisitFrame
<1>3. Settled' = Settled
  BY <1>2 DEF Settled
<1> QED
  BY <1>2, <1>3 DEF IndInv

\* The last step of a visit has to leave its resource well settled.
LEMMA Leaves ==
  ASSUME IndInv, Visiting, OnlyCur, TypeOK', pc' = "visit", cur' = None,
         registered' \subseteq registered \cup {cur},
         NEW r \in Resources, r = cur, WellSettled(r)'
  PROVE  IndInv'
<1>1. r \notin Pending /\ None \notin Resources
  BY NoneIsNoResource DEF IndInv, VisitedOnce
<1>2. /\ Pending' = Pending /\ VisitedOnce' /\ PendingUntouched'
      /\ \A s \in Settled : WellSettled(s)'
  BY VisitFrame
<1>3. Settled' = Settled \cup {r}
  BY <1>1, <1>2 DEF Settled
<1>4. registered' \subseteq Settled'
  BY <1>3 DEF IndInv
<1>5. \A s \in Settled' : WellSettled(s)'
  BY <1>2, <1>3
<1>6. ~Visiting'
  BY DEF Visiting
<1> QED
  BY <1>2, <1>4, <1>5, <1>6 DEF IndInv

\* The first part of a visit: reading, filtering, finding the credentials.
LEMMA InfoInv == IndInv /\ InfoStep => IndInv'
<1> SUFFICES ASSUME IndInv, InfoStep PROVE IndInv'
  OBVIOUS
<1>1. TypeOK' /\ cur \in Resources \cup {None} /\ fault \in [Resources -> SUBSET Kinds]
      /\ (Visiting => cur # None) /\ (Visiting => MidVisit)
  BY VisitTypeOK DEF IndInv, TypeOK
<1> USE DEF loopVars, localVars, clusterVars, resultVars, errorVars, Goto, Leave, Record
<1>2. CASE ReadInfo \/ NoReference \/ InfoUnreadable
  <2>1. Visiting /\ Visiting' /\ OnlyCur /\ cur' = cur /\ registered' = registered
    BY <1>1, <1>2 DEF ReadInfo, NoReference, InfoUnreadable, Visiting, OnlyCur
  <2>2. MidVisit'
    BY <1>1, <1>2, <2>1 DEF ReadInfo, NoReference, InfoUnreadable, MidVisit
  <2> QED
    BY <1>1, <2>1, <2>2, Stays
<1>3. CASE FilterIn \/ CredentialsFound
  <2>1. Visiting /\ Visiting' /\ OnlyCur /\ cur' = cur /\ registered' = registered
    BY <1>1, <1>3 DEF FilterIn, CredentialsFound, Visiting, OnlyCur
  <2>2. MidVisit'
    BY <1>1, <1>3, <2>1 DEF FilterIn, CredentialsFound, MidVisit
  <2> QED
    BY <1>1, <2>1, <2>2, Stays
<1>4. CASE FilterOut \/ CredentialsMissing
  <2>1. /\ Visiting /\ OnlyCur /\ pc' = "visit" /\ cur' = None
        /\ registered' = registered /\ cur \in Resources
    BY <1>1, <1>4 DEF FilterOut, CredentialsMissing, Visiting, OnlyCur
  <2>2. PICK r \in Resources : r = cur
    BY <2>1
  <2>3. r \notin registered
    BY <2>2 DEF IndInv, Settled
  <2>4. WellSettled(r)'
    BY <1>1, <1>4, <2>1, <2>2, <2>3 DEF FilterOut, CredentialsMissing, WellSettled, MidVisit
  <2> QED
    BY <1>1, <2>1, <2>2, <2>4, Leaves
<1> QED
  BY <1>2, <1>3, <1>4 DEF InfoStep

\* The keystore Secret of the visited resource.
LEMMA KeystoreInv == IndInv /\ KeystoreStep => IndInv'
<1> SUFFICES ASSUME IndInv, KeystoreStep PROVE IndInv'
  OBVIOUS
<1>1. /\ TypeOK' /\ cur \in Resources \cup {None} /\ (Visiting => cur # None) /\ (Visiting => MidVisit)
      /\ fault \in [Resources -> SUBSET Kinds] /\ mounts \in [Resources -> BOOLEAN]
      /\ keystore \in [Resources -> {"none", "stale", "fresh"}]
  BY VisitTypeOK DEF IndInv, TypeOK
<1> USE DEF loopVars, localVars, clusterVars, resultVars, errorVars, Goto, Leave, Record, Deleted, Created
<1>2. CASE NoClientCertificate \/ CertificateFound \/ ReplaceKeystore \/ CreateKeystore
  <2>1. Visiting /\ Visiting' /\ OnlyCur /\ cur' = cur /\ registered' = registered
    BY <1>1, <1>2 DEF NoClientCertificate, CertificateFound, ReplaceKeystore, CreateKeystore, Visiting, OnlyCur
  <2>2. MidVisit'
    BY <1>1, <1>2, <2>1 DEF NoClientCertificate, CertificateFound, ReplaceKeystore, CreateKeystore, MidVisit
  <2> QED
    BY <1>1, <2>1, <2>2, Stays
<1>3. ASSUME CertificateUnusable \/ CleanUpKeystore
             \/ \E o \in Failures : ReplaceKeystoreFails(o) \/ CreateKeystoreFails(o) \/ CleanUpKeystoreFails(o)
      PROVE  IndInv'
  <2>1. /\ Visiting /\ OnlyCur /\ pc' = "visit" /\ cur' = None
        /\ registered' = registered /\ cur \in Resources
    BY <1>1, <1>3 DEF CertificateUnusable, CleanUpKeystore, ReplaceKeystoreFails, CreateKeystoreFails,
                      CleanUpKeystoreFails, Visiting, OnlyCur
  <2>2. PICK r \in Resources : r = cur
    BY <2>1
  <2>3. r \notin registered
    BY <2>2 DEF IndInv, Settled
  <2>4. CASE CertificateUnusable \/ CleanUpKeystore
    <3>1. WellSettled(r)'
      BY <1>1, <2>4, <2>1, <2>2, <2>3 DEF CertificateUnusable, CleanUpKeystore, WellSettled, MidVisit
    <3> QED
      BY <1>1, <2>1, <2>2, <3>1, Leaves
  <2>5. ASSUME NEW o \in Failures, ReplaceKeystoreFails(o) \/ CreateKeystoreFails(o) \/ CleanUpKeystoreFails(o)
        PROVE  IndInv'
    <3>1. WellSettled(r)'
      BY <1>1, <2>5, <2>1, <2>2, <2>3
         DEF ReplaceKeystoreFails, CreateKeystoreFails, CleanUpKeystoreFails, WellSettled, MidVisit
    <3> QED
      BY <1>1, <2>1, <2>2, <3>1, Leaves
  <2> QED
    BY <1>3, <2>4, <2>5
<1> QED
  BY <1>2, <1>3 DEF KeystoreStep

\* The Pod of the visited resource.
LEMMA PodInv == IndInv /\ PodStep => IndInv'
<1> SUFFICES ASSUME IndInv, PodStep PROVE IndInv'
  OBVIOUS
<1>1. /\ TypeOK' /\ cur \in Resources \cup {None} /\ (Visiting => cur # None) /\ (Visiting => MidVisit)
      /\ fault \in [Resources -> SUBSET Kinds] /\ mounts \in [Resources -> BOOLEAN]
      /\ pod \in [Resources -> {"none", "stale", "fresh"}]
  BY VisitTypeOK DEF IndInv, TypeOK
<1> USE DEF loopVars, localVars, clusterVars, resultVars, errorVars, Goto, Leave, Record, Deleted, Created
<1>2. CASE RenderPod \/ RenderFails \/ DeleteStalePod \/ CreatePod
  <2>1. Visiting /\ Visiting' /\ OnlyCur /\ cur' = cur /\ registered' = registered
    BY <1>1, <1>2 DEF RenderPod, RenderFails, DeleteStalePod, CreatePod, Visiting, OnlyCur
  <2>2. MidVisit'
    BY <1>1, <1>2, <2>1 DEF RenderPod, RenderFails, DeleteStalePod, CreatePod, MidVisit
  <2> QED
    BY <1>1, <2>1, <2>2, Stays
<1>3. ASSUME NEW o \in Failures, DeleteStalePodFails(o) \/ CreatePodFails(o) PROVE IndInv'
  <2>1. Visiting /\ Visiting' /\ OnlyCur /\ cur' = cur /\ registered' = registered
    BY <1>1, <1>3 DEF DeleteStalePodFails, CreatePodFails, Visiting, OnlyCur
  <2>2. MidVisit'
    BY <1>1, <1>3, <2>1 DEF DeleteStalePodFails, CreatePodFails, MidVisit
  <2> QED
    BY <1>1, <2>1, <2>2, Stays
<1>4. CASE Register
  <2>1. /\ Visiting /\ OnlyCur /\ pc' = "visit" /\ cur' = None
        /\ registered' = registered \cup {cur} /\ cur \in Resources
    BY <1>1, <1>4 DEF Register, Visiting, OnlyCur
  <2>2. PICK r \in Resources : r = cur
    BY <2>1
  <2>3. WellSettled(r)'
    BY <1>1, <1>4, <2>1, <2>2 DEF Register, WellSettled, MidVisit
  <2> QED
    BY <1>1, <2>1, <2>2, <2>3, Leaves
<1> QED
  BY <1>2, <1>3, <1>4 DEF PodStep

-----------------------------------------------------------------------------
(***************************************************************************)
(* The theorems.                                                           *)
(***************************************************************************)

\* A step that changes nothing keeps the invariant.
LEMMA StutterInv == IndInv /\ UNCHANGED vars => IndInv'
  BY DEF IndInv, TypeOK, Visiting, VisitedOnce, Pending, PendingUntouched, Untouched, MidVisit,
         Settled, WellSettled, vars, loopVars, localVars, clusterVars, resultVars, errorVars

\* scheduleJobs keeps its inductive invariant, for any resources, failures and
\* leftovers of earlier runs.
THEOREM Invariance == Spec => []IndInv
<1>1. Init => IndInv
  BY InitInv
<1>2. IndInv /\ [Next]_vars => IndInv'
  BY ListInv, InfoInv, KeystoreInv, PodInv, StutterInv DEF Next, Stop
<1> QED
  BY <1>1, <1>2, PTL DEF Spec

\* Types, with the current resource exactly while scheduleJobs visits one.
THEOREM TypeCorrect == Spec => []TypeOK
<1>1. IndInv => TypeOK
  BY DEF IndInv
<1> QED
  BY <1>1, Invariance, PTL

\* The jobs that extractJobResults starts with have the Pod, and the Secret it
\* mounts, that this run created.
THEOREM ReadyJobs == Spec => []RegisteredIsReady
<1>1. IndInv => RegisteredIsReady
  BY DEF IndInv, WellSettled, RegisteredIsReady
<1> QED
  BY <1>1, Invariance, PTL

\* scheduleJobs passes no resource over without a word.
THEOREM NoneLost == Spec => []SettledIsExplained
<1>1. IndInv => SettledIsExplained
  BY DEF IndInv, WellSettled, SettledIsExplained
<1> QED
  BY <1>1, Invariance, PTL

\* A keystore Secret or a Pod without a job is left only by a failed request
\* about it, and the archive has the error.
THEOREM NoKeyMaterialLeft == Spec => []LeftoversAreExplained
<1>1. IndInv => LeftoversAreExplained
  BY DEF IndInv, WellSettled, LeftoversAreExplained
<1> QED
  BY <1>1, Invariance, PTL

\* Where there is no Logstash, a resource is scheduled unless something went
\* wrong with it or the filters leave it out.
THEOREM OthersAreScheduled == Logstash = {} /\ Spec => []SupportedIsScheduled
<1>1. Logstash = {} => (IndInv => SupportedIsScheduled)
  BY DEF IndInv, WellSettled, SupportedIsScheduled
<1>2. CASE Logstash = {}
  <2>1. IndInv => SupportedIsScheduled
    BY <1>1, <1>2
  <2> QED
    BY <2>1, Invariance, PTL
<1>3. CASE Logstash # {}
  BY <1>3
<1> QED
  BY <1>2, <1>3

-----------------------------------------------------------------------------
(***************************************************************************)
(* Scheduling implements the first part of DiagSession.                    *)
(***************************************************************************)

\* The resource whose job is registered has none yet: it was not visited before.
LEMMA RegisterOpens ==
  ASSUME IndInv, Register
  PROVE  Session!Open(cur) /\ cur \in Resources
<1>1. cur \in Resources /\ cur \notin registered
  BY DEF IndInv, TypeOK, Visiting, Register, Settled
<1>2. session = "scheduling" /\ session' = "scheduling"
  BY DEF Register, Leave, Goto, session
<1>3. registered' = registered \cup {cur}
  BY DEF Register
<1>4. status[cur] = "unscheduled" /\ status' = [status EXCEPT ![cur] = "open"]
  BY <1>1, <1>3 DEF status
<1> QED
  BY <1>1, <1>2, <1>4 DEF Session!Open

\* A step that registers nothing and ends nothing does not show.
LEMMA SessionStutters ==
  ASSUME registered' = registered, pc \notin {"scheduled", "bailed"}, pc' \notin {"scheduled", "bailed"}
  PROVE  UNCHANGED Session!vars
BY DEF Session!vars, status, session

LEMMA ListSession ==
  ASSUME IndInv, ListStep
  PROVE  Session!Next \/ UNCHANGED Session!vars
<1>1. registered' = registered /\ pc \notin {"scheduled", "bailed"}
  BY DEF ListStep, ListType, ListFails, Visit, TypeDone, Finish, resultVars
<1>2. status' = status /\ session = "scheduling"
  BY <1>1 DEF status, session
<1>3. CASE ListFails
  <2>1. session' = "abandoned"
    BY <1>3 DEF ListFails, Goto, session
  <2> QED
    BY <1>2, <2>1 DEF Session!Next, Session!Abandon
<1>4. CASE Finish
  <2>1. pc' = "scheduled"
    BY <1>4 DEF Finish, Goto
  <2>2. CASE registered = {}
    BY <1>1, <1>2, <2>1, <2>2
       DEF Session!Next, Session!Close, Session!NoneOpen, status, session
  <2>3. CASE registered # {}
    BY <1>1, <1>2, <2>1, <2>3 DEF Session!Next, Session!Collect, session
  <2> QED
    BY <2>2, <2>3
<1>5. CASE ListType \/ (\E r \in Resources : Visit(r)) \/ TypeDone
  <2>1. pc' \notin {"scheduled", "bailed"}
    BY <1>5 DEF ListType, Visit, TypeDone, Goto
  <2> QED
    BY <1>1, <2>1, SessionStutters
<1> QED
  BY <1>3, <1>4, <1>5 DEF ListStep

LEMMA VisitSession ==
  ASSUME IndInv, InfoStep \/ KeystoreStep \/ PodStep
  PROVE  Session!Next \/ UNCHANGED Session!vars
<1>1. CASE Register
  BY <1>1, RegisterOpens DEF Session!Next
<1>2. CASE ~Register
  <2>1. CASE InfoStep
    BY <2>1, SessionStutters
       DEF InfoStep, ReadInfo, NoReference, InfoUnreadable, FilterOut, FilterIn, CredentialsFound,
           CredentialsMissing, Goto, Leave, resultVars
  <2>2. CASE KeystoreStep
    BY <2>2, SessionStutters
       DEF KeystoreStep, NoClientCertificate, CertificateUnusable, CertificateFound, ReplaceKeystore,
           CreateKeystore, CleanUpKeystore, ReplaceKeystoreFails, CreateKeystoreFails,
           CleanUpKeystoreFails, Goto, Leave, resultVars
  <2>3. CASE PodStep
    BY <1>2, <2>3, SessionStutters
       DEF PodStep, RenderPod, RenderFails, DeleteStalePod, CreatePod, DeleteStalePodFails,
           CreatePodFails, Goto, resultVars
  <2> QED
    BY <2>1, <2>2, <2>3
<1> QED
  BY <1>1, <1>2

\* What scheduleJobs does with all its requests is what DiagSession says of the
\* scheduling: no resource is given a second job, also when the first one's requests
\* failed or left objects behind, and jobs are collected unless a type cannot be listed.
THEOREM ImplementsSessionStart == Spec => IsSessionStart
<1>1. Init => Session!Init
  BY DEF Init, Session!Init, status, session
<1>2. IndInv /\ [Next]_vars => [Session!Next]_Session!vars
  <2>1. CASE UNCHANGED vars
    BY <2>1 DEF vars, resultVars, Session!vars, status, session
  <2>2. ASSUME IndInv, Next PROVE Session!Next \/ UNCHANGED Session!vars
    <3>1. CASE Stop
      BY <3>1 DEF Stop, vars, resultVars, Session!vars, status, session
    <3> QED
      BY <2>2, <3>1, ListSession, VisitSession DEF Next
  <2> QED
    BY <2>1, <2>2
<1> QED
  BY <1>1, <1>2, Invariance, PTL DEF Spec, IsSessionStart, Session!Spec
=============================================================================
