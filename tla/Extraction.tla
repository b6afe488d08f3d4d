----------------------------- MODULE Extraction -----------------------------
(***************************************************************************)
(* What extractFromRemote (internal/stackdiag.go) promises to the code     *)
(* around it, whatever happens to the stream it reads: when it comes back, *)
(* the archive has everything the Pod had to offer, which may be nothing,  *)
(* or it has an error. It may be called again for the same Pod; what the   *)
(* archive has of the results only grows, and an error stays.              *)
(***************************************************************************)
EXTENDS Naturals

VARIABLES
  extracting,   \* a call is under way
  got,          \* what the archive has: "nothing", "partial", "full", or
                \* "empty" when the Pod is known to have nothing to offer
  reported      \* the archive has an error about it

vars == <<extracting, got, reported>>

Rank == [nothing |-> 0, partial |-> 1, full |-> 2, empty |-> 2]

Grows ==
  /\ got' \in DOMAIN Rank /\ Rank[got] <= Rank[got']
  /\ reported' \in {reported, TRUE}

Init ==
  /\ extracting = FALSE
  /\ got = "nothing"
  /\ reported = FALSE

Begin == ~extracting /\ extracting' = TRUE /\ UNCHANGED <<got, reported>>

Unpack == extracting /\ extracting' = TRUE /\ Grows

\* The call comes back: there is no third way besides all results and an error.
End ==
  /\ extracting /\ extracting' = FALSE
  /\ Grows
  /\ got' \in {"full", "empty"} \/ reported'

\* Other code may report on the Pod at any time.
Report == reported' = TRUE /\ UNCHANGED <<extracting, got>>

Next == Begin \/ Unpack \/ End \/ Report

Spec == Init /\ [][Next]_vars
=============================================================================
