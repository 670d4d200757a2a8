----------------------------- MODULE Settlement -----------------------------
(***************************************************************************)
(* What the Steward promises the owner of a receipt: an accepted receipt   *)
(* stays open until it is organized by exactly one proposal or fails, that *)
(* verdict is never revised, and only deleting the receipt ends its story. *)
(* Several receipts may be decided in one step (disabling a Space), but    *)
(* only one proposal takes effect at a time.  StewardJobs implements this. *)
(***************************************************************************)
CONSTANTS Receipts, Proposals

VARIABLE verdict

Verdicts == {"absent", "open", "failed", "forgotten"} \union Proposals

Init == verdict = [r \in Receipts |-> "absent"]

(* The moves of one receipt. *)
Move(from, to) ==
    \/ from = "absent" /\ to = "open"
    \/ from = "open" /\ to \in {"failed"} \union Proposals
    \/ from \notin {"absent", "forgotten"} /\ to = "forgotten"

Next ==
    /\ verdict' \in [Receipts -> Verdicts]
    /\ \A r \in Receipts : verdict'[r] # verdict[r] => Move(verdict[r], verdict'[r])
    /\ \A r, s \in Receipts :
          /\ verdict[r] = "open" /\ verdict'[r] \in Proposals
          /\ verdict'[s] # verdict[s]
          => r = s

Spec == Init /\ [][Next]_verdict
=============================================================================
