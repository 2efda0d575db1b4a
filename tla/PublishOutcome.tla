--------------------------- MODULE PublishOutcome ---------------------------
(***************************************************************************)
(* What the pipeline assumes of one hf.publish_corpus or hf.publish_catalog *)
(* call: it ends as `ok` only when the commit is in the dataset, and as     *)
(* `failed` in any case.  A commit may still land after a `failed` answer.  *)
(***************************************************************************)

VARIABLES
    outcome,  \* what the caller knows: "pending", "ok" or "failed"
    landed    \* the folder's content is in the dataset

vars == <<outcome, landed>>

Init == outcome = "pending" /\ landed = FALSE

Land ==
    /\ ~landed
    /\ landed' = TRUE
    /\ UNCHANGED outcome

Succeed ==
    /\ outcome = "pending"
    /\ landed
    /\ outcome' = "ok"
    /\ UNCHANGED landed

Fail ==
    /\ outcome = "pending"
    /\ outcome' = "failed"
    /\ UNCHANGED landed

Next == Land \/ Succeed \/ Fail

Spec == Init /\ [][Next]_vars
=============================================================================
