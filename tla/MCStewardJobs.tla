--------------------------- MODULE MCStewardJobs ---------------------------
(* Instances of StewardJobs for TLC. *)
EXTENDS StewardJobs, TLC

Symmetry == Permutations(Receipts) \union Permutations(Workers)
                                   \union Permutations(Proposals)

(* Bounds the requests that are late at the same time. *)
CONSTANT MaxInFlight
InFlightBound == Cardinality(net) <= MaxInFlight

(* One worker, whichever it is, that keeps running. *)
LiveWorker == CHOOSE w \in Workers : TRUE

FairSpec == Spec /\ Fairness(LiveWorker)
=============================================================================
