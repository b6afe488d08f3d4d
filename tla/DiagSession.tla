---------------------------- MODULE DiagSession ----------------------------
(***************************************************************************)
(* What a call of runStackDiagnostics promises about its jobs: each job it *)
(* opens is finished once, and unless scheduling itself failed the call    *)
(* is over only when no job is open.                                       *)
(***************************************************************************)
CONSTANT Jobs

VARIABLES status,   \* of each job: "unscheduled", "open" or "done"
          session   \* "scheduling", "collecting", "over" or "abandoned"

vars == <<status, session>>

TypeOK ==
  /\ status \in [Jobs -> {"unscheduled", "open", "done"}]
  /\ session \in {"scheduling", "collecting", "over", "abandoned"}

Init ==
  /\ status = [j \in Jobs |-> "unscheduled"]
  /\ session = "scheduling"

Open(j) ==
  /\ session = "scheduling"
  /\ status[j] = "unscheduled"
  /\ status' = [status EXCEPT ![j] = "open"]
  /\ UNCHANGED session

\* A job can finish at any time: its timer does not wait for anybody.
Finish(j) ==
  /\ status[j] = "open"
  /\ status' = [status EXCEPT ![j] = "done"]
  /\ UNCHANGED session

Collect ==
  /\ session = "scheduling"
  /\ session' = "collecting"
  /\ UNCHANGED status

NoneOpen == \A j \in Jobs : status[j] # "open"

\* The call returns from collecting, or at once when no job was opened.
Close ==
  /\ session = "collecting" \/ \A j \in Jobs : status[j] = "unscheduled"
  /\ session \in {"scheduling", "collecting"}
  /\ NoneOpen
  /\ session' = "over"
  /\ UNCHANGED status

Abandon ==
  /\ session = "scheduling"
  /\ session' = "abandoned"
  /\ UNCHANGED status

Next ==
  \/ \E j \in Jobs : Open(j) \/ Finish(j)
  \/ Collect \/ Close \/ Abandon

Spec == Init /\ [][Next]_vars
=============================================================================
